---------------------------- MODULE Spec2Model ----------------------------
(***************************************************************************)
(* Portfolio accounting engines of the Wealth-app spreadsheet scripts.     *)
(*                                                                         *)
(*   - processFifo              (Sheets_Trading.js)   lot queues per       *)
(*     ticker behind myStockPositions / myCryptoPositions;                 *)
(*   - calculatePortfolioStats  (part_005)            lot queues and       *)
(*     per-ticker statistics behind PORTFOLIO_DASHBOARD;                   *)
(*   - calculateZainettoReport  (part_005)            yearly tax basket.   *)
(*                                                                         *)
(* Share quantities are fixed-point integers that count 10^-ShareDigits    *)
(* shares, so that Number(x.toFixed(precision)) is a real rounding to a    *)
(* multiple of 10^(ShareDigits - precision).  A unit price is money per    *)
(* share, so quantity * price is money counted in 10^-ShareDigits.         *)
(* Arithmetic is exact: binary floating-point error is not modelled.       *)
(***************************************************************************)
EXTENDS Integers, Sequences, FiniteSets, TLC

\* ------------------------------------------------------------------ bounds
\* Decimal digits of the fixed-point share quantities (one more than the
\* finest precision the engines round to).
ShareDigits == 9
\* Rows one run of an engine processes.
MaxTrades == 3
\* Trade dates are day numbers 1..MaxDate.
MaxDate == 2
\* The tax report covers the years FirstYear .. FirstYear + MaxYears - 1.
FirstYear == 2020
MaxYears == 6
\* Calls of report functions on one array.
MaxCalls == 2
\* Decimal digits of the amounts cleanNumber is checked on.
MoneyDigits == 2
\* Lots in the queue a sell loop starts on.
MaxLots == 3

\* -------------------------------------------------------- program constants
\* precision passed by myStockPositions; (trade.type === "Crypto") ? 8 : 5
StockPrecision == 5
\* precision passed by myCryptoPositions
CryptoPrecision == 8
\* const CUTOFF_DATE = new Date("2026-01-30"), as a day number
CUTOFF_DATE == 2
\* minBuyPrice: Infinity
Infinity == 2147483647
\* year - pastYear > 4, expiryYearLimit = year - 4
BasketYears == 4
\* estimatedTax = taxableBase * 0.26, as a percentage
TaxRatePct == 26

\* ------------------------------------------------------------------ inputs
Tickers == {"AAA", "BTC"}
Actions == {"Buy", "Sell", "Dividend"}
\* Price cells: lots are bought at 10 or 20 and sold at 15, so that a sale
\* closes the one lot at a gain and the other at a loss; a Dividend row holds
\* the amount paid in its price cell.
PriceCells(action) == IF action = "Sell" THEN {15} ELSE {10, 20}
Dates == 1..MaxDate
\* Action cells as users spell them: the documented Buy-class names, the same
\* in capitals, and other actions.
ActionNames ==
  {"Buy", "DRIP", "Reward", "Staking", "Mining", "Mint",
   "Drip", "REWARD", "STAKING", "MINING", "MINT", "Rebuy",
   "Sell", "Dividend", "Split"}

Years == FirstYear..(FirstYear + MaxYears - 1)
\* Rows of the fiscal ledger (calculateFiscalReportDetails) of one year: the
\* asset type and the P&L of each sale.  A year has at most one Stock sale at
\* a gain, one Stock sale at a loss and one ETF sale at a gain.
Sale(type, pnl) == IF pnl = 0 THEN <<>> ELSE <<[type |-> type, pnl |-> pnl]>>
SalesOfYear ==
  {Sale("Stock", g) \o Sale("Stock", -l) \o Sale("ETF", e) :
     g \in {0, 500, 1000}, l \in {0, 500, 1000}, e \in {0, 500}}
\* Dividend rows of one year (totalSpent of each).
DividendsOfYear == {<<>>, <<100>>}

RECURSIVE Pow10(_)
Pow10(n) == IF n = 0 THEN 1 ELSE 10 * Pow10(n - 1)

\* The quantity that is one unit of the last digit toFixed(precision) keeps.
Unit(precision) == Pow10(ShareDigits - precision)

\* Quantity cells of a sheet: a negative number, zero, an amount below the
\* precision (0.4 unit), and whole multiples of the unit.
Qtys(precision) ==
  {k * Unit(precision) : k \in {-5, 0, 5, 7}} \cup {(4 * Unit(precision)) \div 10}

\* The sheet a ticker is entered in: the crypto sheet has no type column, and
\* the stock sheet's type cell of AAA reads "Stock".
TypeOf(ticker) == IF ticker = "BTC" THEN "Crypto" ELSE "Stock"

\* ------------------------------------------------------------ JS primitives
\* Number(x.toFixed(precision)): the multiple of the unit nearest to x, the
\* larger in magnitude of two equally near.
ToFixed(x, precision) ==
  LET u == Unit(precision)
      mag == IF x < 0 THEN -x ELSE x
      r == ((2 * mag + u) \div (2 * u)) * u
  IN IF x < 0 THEN -r ELSE r

\* String.prototype.toUpperCase on the action names the sheets use.
ToUpperCase(s) ==
  CASE s = "Buy" -> "BUY"
    [] s = "Sell" -> "SELL"
    [] s = "Dividend" -> "DIVIDEND"
    [] s = "Dividends" -> "DIVIDENDS"
    [] s = "Reward" -> "REWARD"
    [] s = "Staking" -> "STAKING"
    [] s = "Split" -> "SPLIT"
    [] s = "Drip" -> "DRIP"
    [] s = "Mining" -> "MINING"
    [] s = "Mint" -> "MINT"
    [] s = "Rebuy" -> "REBUY"
    [] OTHER -> s

\* s.includes("BUY") on those names.
IncludesBUY(s) == s \in {"BUY", "REBUY", "BUYBACK"}

\* Map.prototype: has / set / delete on a function with a finite domain.
EmptyMap == [k \in {} |-> 0]
MapSet(m, k, v) == (k :> v) @@ m
MapDelete(m, k) == [x \in DOMAIN m \ {k} |-> m[x]]

RECURSIVE SumShares(_)
SumShares(lots) ==
  IF lots = <<>> THEN 0 ELSE Head(lots).shares + SumShares(Tail(lots))

\* ------------------------------------------------------------------- state
VARIABLES
  entry,        \* the sheet function that is running
  nTrades,      \* rows processed so far
  clock,        \* date of the last trade of the sorted list
  pfPortfolio,  \* processFifo: portfolio (ticker -> lots)
  psPortfolio,  \* calculatePortfolioStats: portfolio (ticker -> lots)
  stats,        \* calculatePortfolioStats: stats (ticker -> TickerStats)
  bought,       \* per ticker: shares put into lots so far
  consumed,     \* per ticker: shares the sell loops took out of lots so far
  last,         \* the row processed last
  holdings,     \* PORTFOLIO_EVOLUZIONE: holdings (ticker -> qty, invested, type)
  zYear,        \* calculateZainettoReport: the report year processed last
  minusBucket,  \* calculateZainettoReport: minusBucket (origin year -> loss left)
  zStats,       \* yearlyStats entry and dividends of the year processed last
  zTakes,       \* what that year's drawdown took from each origin year
  zRow,         \* the report row pushed last
  stockData,    \* normalizeData's result for the stock sheet
  cryptoData,   \* normalizeData's result for the crypto sheet
  allData,      \* the array stockData.concat(cryptoData) the reports are given
  results,      \* the tables the report functions returned, in call order
  fiscal,       \* calculateFiscalReportDetails: portfolio (ticker -> lots), report
  sheet,        \* the raw rows of the stock sheet and of the crypto sheet
  cnValue,      \* cleanNumber: the cell it is given (value)
  cnResult,     \* cleanNumber: what it returned
  aiM,          \* the AI entry points: index of the model the loop is at
  aiCalls,      \* the fetches made so far: model and response, in call order
  aiResult,     \* what the entry point returned, or that it is running
  sellLoop      \* a FIFO sell loop: its function, queue and shares to sell

vars == <<entry, nTrades, clock, pfPortfolio, psPortfolio, stats, bought,
          consumed, last, holdings, zYear, minusBucket, zStats, zTakes, zRow,
          stockData, cryptoData, allData, results, fiscal, sheet, cnValue,
          cnResult, aiM, aiCalls, aiResult, sellLoop>>

fifoVars == <<nTrades, clock, pfPortfolio, psPortfolio, stats, bought, consumed,
              last, holdings>>
zainettoVars == <<zYear, minusBucket, zStats, zTakes, zRow>>
reportVars == <<stockData, cryptoData, allData, results, fiscal, sheet>>
\* The state of the functions that are run on their own.
unitVars == <<cnValue, cnResult, aiM, aiCalls, aiResult, sellLoop>>

NoTrade ==
  [date |-> 0, ticker |-> "", action |-> "", qty |-> 0, unitPrice |-> 0,
   totalSpent |-> 0, type |-> ""]

\* ------------------------------------------------- Sheets_Trading.js
createTradeObject(quantity, price, action) ==
  [shares |-> quantity, price |-> price, action |-> action]

\* processFifo's loop with a slip: a lot that is sold out stays in the queue
\* with zero shares.
RECURSIVE FifoSellLoopKeepsClosedLot(_, _, _)
FifoSellLoopKeepsClosedLot(activeTrades, sharesToSell, precision) ==
  IF ~(sharesToSell > 0 /\ Len(activeTrades) > 0)
  THEN [lots |-> activeTrades, taken |-> 0]
  ELSE LET oldestTrade == Head(activeTrades)
           availableShares == ToFixed(oldestTrade.shares, precision)
       IN IF availableShares <= sharesToSell
          THEN LET r == FifoSellLoopKeepsClosedLot(Tail(activeTrades),
                          ToFixed(sharesToSell - availableShares, precision),
                          precision)
               IN [lots |-> <<[oldestTrade EXCEPT !.shares = 0]>> \o r.lots,
                   taken |-> availableShares + r.taken]
          ELSE [lots |-> <<[oldestTrade EXCEPT
                              !.shares = ToFixed(availableShares - sharesToSell,
                                                 precision)]>>
                         \o Tail(activeTrades),
                taken |-> sharesToSell]

\* The while loop of processFifo: lots left, and the shares taken out.
RECURSIVE FifoSellLoop(_, _, _)
FifoSellLoop(activeTrades, sharesToSell, precision) ==
  IF ~(sharesToSell > 0 /\ Len(activeTrades) > 0)
  THEN [lots |-> activeTrades, taken |-> 0]
  ELSE LET oldestTrade == Head(activeTrades)
           availableShares == ToFixed(oldestTrade.shares, precision)
       IN IF availableShares <= sharesToSell
          THEN LET r == FifoSellLoop(Tail(activeTrades),
                                     ToFixed(sharesToSell - availableShares, precision),
                                     precision)
               IN [lots |-> r.lots, taken |-> availableShares + r.taken]
          ELSE [lots |-> <<[oldestTrade EXCEPT
                              !.shares = ToFixed(availableShares - sharesToSell,
                                                 precision)]>>
                         \o Tail(activeTrades),
                taken |-> sharesToSell]

IsBuyFifo(action) ==
  action = "Buy" \/ ToUpperCase(action) = "DRIP" \/ ToUpperCase(action) = "REWARD"

\* The deletion logic with a slip: a sale on the cutoff date itself deletes too.
FifoDeletesThroughCutoff(tradeDate, keepRows) ==
  IF keepRows THEN tradeDate <= CUTOFF_DATE ELSE TRUE

\* The deletion logic after the loop emptied the queue.
FifoDeletes(tradeDate, keepRows) ==
  IF keepRows THEN tradeDate < CUTOFF_DATE ELSE TRUE

\* One iteration of processFifo's for loop.
processFifo(portfolio, ticker, action, quantity, price, tradeDate, precision, keepRows) ==
  LET trade == createTradeObject(quantity, price, action)
      afterBuy ==
        IF IsBuyFifo(action)
        THEN IF ticker \in DOMAIN portfolio
             THEN [portfolio EXCEPT ![ticker] = Append(@, trade)]
             ELSE MapSet(portfolio, ticker, <<trade>>)
        ELSE portfolio
  IN IF action = "Sell" /\ ticker \in DOMAIN afterBuy
     THEN LET r == FifoSellLoop(afterBuy[ticker], ToFixed(trade.shares, precision),
                                precision)
          IN [portfolio |->
                IF Len(r.lots) = 0 /\ FifoDeletes(tradeDate, keepRows)
                THEN MapDelete(afterBuy, ticker)
                ELSE [afterBuy EXCEPT ![ticker] = r.lots],
              taken |-> r.taken]
     ELSE [portfolio |-> afterBuy, taken |-> 0]

\* myStockPositions passes (5, true), myCryptoPositions (8, false).
EntryPrecision == IF entry = "myStockPositions" THEN StockPrecision ELSE CryptoPrecision
EntryKeepRows == entry = "myStockPositions"

RECURSIVE TotalCost(_)
TotalCost(trades) ==
  IF trades = <<>> THEN 0
  ELSE Head(trades).shares * Head(trades).price + TotalCost(Tail(trades))

\* formatPortfolioOutput: the row [ticker, totalShares, avgPrice] of every
\* ticker in the map.  avgPrice is the exact quotient, kept as the pair
\* <<totalCost, totalShares>>, and <<0, 1>> when it is 0.
formatPortfolioOutput(portfolioMap) ==
  [ticker \in DOMAIN portfolioMap |->
     LET trades == portfolioMap[ticker]
         totalShares == SumShares(trades)
         totalCost == TotalCost(trades)
     IN [totalShares |-> totalShares,
         avgPrice |-> IF totalShares > 0 THEN <<totalCost, totalShares>>
                      ELSE <<0, 1>>]]

ProcessFifoRow ==
  /\ entry \in {"myStockPositions", "myCryptoPositions"}
  /\ nTrades < MaxTrades
  /\ \E ticker \in Tickers, action \in Actions, date \in Dates :
       \E quantity \in Qtys(EntryPrecision), price \in PriceCells(action) :
         LET r == processFifo(pfPortfolio, ticker, action, quantity, price, date,
                              EntryPrecision, EntryKeepRows)
         IN /\ pfPortfolio' = r.portfolio
            /\ bought' = [bought EXCEPT ![ticker] =
                            @ + IF IsBuyFifo(action) THEN quantity ELSE 0]
            /\ consumed' = [consumed EXCEPT ![ticker] = @ + r.taken]
            /\ last' = [date |-> date, ticker |-> ticker, action |-> action,
                        qty |-> quantity, unitPrice |-> price,
                        totalSpent |-> 0, type |-> ""]
  /\ nTrades' = nTrades + 1
  /\ UNCHANGED <<entry, clock, psPortfolio, stats, holdings>>
  /\ UNCHANGED zainettoVars
  /\ UNCHANGED reportVars
  /\ UNCHANGED unitVars

\* --------------------------------------------------- part_005: cleanNumber
\* A sheet cell holds a number or a string; a string is a sequence of
\* characters, and the blank cell is the empty string.
NumberCell(n) == [isNumber |-> TRUE, n |-> n, str |-> <<>>]
StringCell(str) == [isNumber |-> FALSE, n |-> 0, str |-> str]
Blank == StringCell(<<>>)

IsDigit(c) == c \in {"0", "1", "2", "3", "4", "5", "6", "7", "8", "9"}
DigitVal(c) ==
  CASE c = "0" -> 0 [] c = "1" -> 1 [] c = "2" -> 2 [] c = "3" -> 3 [] c = "4" -> 4
    [] c = "5" -> 5 [] c = "6" -> 6 [] c = "7" -> 7 [] c = "8" -> 8 [] c = "9" -> 9

\* String.prototype.trim
RECURSIVE TrimStart(_)
TrimStart(str) ==
  IF str # <<>> /\ Head(str) = " " THEN TrimStart(Tail(str)) ELSE str
RECURSIVE TrimEnd(_)
TrimEnd(str) ==
  IF str # <<>> /\ str[Len(str)] = " "
  THEN TrimEnd(SubSeq(str, 1, Len(str) - 1)) ELSE str
Trim(str) == TrimEnd(TrimStart(str))

\* str.replace(/[...]/g, ""): every character of the set removed.
RECURSIVE RemoveAll(_, _)
RemoveAll(str, chars) ==
  IF str = <<>> THEN <<>>
  ELSE (IF Head(str) \in chars THEN <<>> ELSE <<Head(str)>>)
         \o RemoveAll(Tail(str), chars)

Includes(str, c) == \E i \in 1..Len(str) : str[i] = c

\* str.replace(c, d) with a string pattern: the first occurrence only.
RECURSIVE ReplaceFirst(_, _, _)
ReplaceFirst(str, c, d) ==
  IF str = <<>> THEN <<>>
  ELSE IF Head(str) = c THEN <<d>> \o Tail(str)
  ELSE <<Head(str)>> \o ReplaceFirst(Tail(str), c, d)

\* The longest prefix of digits.
RECURSIVE LeadingDigits(_)
LeadingDigits(str) ==
  IF str # <<>> /\ IsDigit(Head(str))
  THEN <<Head(str)>> \o LeadingDigits(Tail(str)) ELSE <<>>

RECURSIVE DigitsVal(_)
DigitsVal(ds) ==
  IF ds = <<>> THEN 0 ELSE 10 * DigitsVal(SubSeq(ds, 1, Len(ds) - 1)) + DigitVal(ds[Len(ds)])

\* The fraction 0.ds counted in 10^-digits (further decimals are dropped).
RECURSIVE FractionVal(_, _)
FractionVal(ds, digits) ==
  IF digits = 0 THEN 0
  ELSE IF ds = <<>> THEN 0
  ELSE DigitVal(Head(ds)) * Pow10(digits - 1) + FractionVal(Tail(ds), digits - 1)

\* parseFloat(str), the result counted in 10^-digits: an optional sign, digits,
\* an optional point and digits; what follows is ignored; NaN without a digit.
ParseFloat(str, digits) ==
  LET signed == str # <<>> /\ Head(str) \in {"-", "+"}
      body == IF signed THEN Tail(str) ELSE str
      int == LeadingDigits(body)
      rest == SubSeq(body, Len(int) + 1, Len(body))
      frac == IF rest # <<>> /\ Head(rest) = "." THEN LeadingDigits(Tail(rest))
              ELSE <<>>
      mag == DigitsVal(int) * Pow10(digits) + FractionVal(frac, digits)
  IN IF int = <<>> /\ frac = <<>> THEN [isNaN |-> TRUE, n |-> 0]
     ELSE [isNaN |-> FALSE,
           n |-> IF signed /\ Head(str) = "-" THEN -mag ELSE mag]

\* A character outside ASCII is written as its code point.
EuroSign == "U+20AC"
PoundSign == "U+00A3"

\* The character class of the first replace, as the file holds it: the
\* characters U+00E2, U+201A, U+00AC, "$", U+00C2, U+00A3 and white space.
CurrencyAndSpace ==
  {"U+00E2", "U+201A", "U+00AC", "$", "U+00C2", PoundSign, " "}

\* cleanNumber(value), the result counted in 10^-digits.
cleanNumber(value, digits) ==
  IF value.isNumber THEN value.n
  ELSE LET str == Trim(value.str)
           str1 == RemoveAll(str, CurrencyAndSpace)
           str2 == IF Includes(str1, ".") /\ Includes(str1, ",")
                   THEN ReplaceFirst(RemoveAll(str1, {"."}), ",", ".")
                   ELSE IF Includes(str1, ",") THEN ReplaceFirst(str1, ",", ".")
                   ELSE str1
           num == ParseFloat(str2, digits)
       IN IF value.str = <<>> THEN 0
          ELSE IF str = <<>> \/ str = <<"x">> \/ str = <<"X">> THEN 0
          ELSE IF num.isNaN THEN 0 ELSE num.n

\* ------------------------------------------------- part_005: normalizeData
\* One row of normalizeData's loop, the cells already parsed to numbers.
normalizeData(date, ticker, action, qtyCell, priceCell, rawSpent, typeCell, isCryptoMode) ==
  LET derivedPrice ==
        IF isCryptoMode /\ priceCell = 0 /\ qtyCell # 0 /\ rawSpent # 0
        THEN rawSpent \div qtyCell ELSE priceCell
      isDividend == action = "Dividend" \/ action = "Dividends"
  IN IF isCryptoMode
     THEN [date |-> date, ticker |-> ticker, action |-> action, qty |-> qtyCell,
           unitPrice |-> derivedPrice,
           totalSpent |-> IF rawSpent = 0 /\ qtyCell # 0 /\ derivedPrice # 0
                          THEN qtyCell * derivedPrice ELSE rawSpent,
           type |-> "Crypto"]
     ELSE [date |-> date, ticker |-> ticker, action |-> action,
           qty |-> IF isDividend THEN 0 ELSE qtyCell,
           unitPrice |-> priceCell,
           totalSpent |-> IF isDividend THEN priceCell ELSE priceCell * qtyCell,
           type |-> IF typeCell # "" THEN typeCell ELSE "Stock"]

\* ------------------------------------- part_005: calculatePortfolioStats
NewStats(type) ==
  [type |-> type, tradingPnL |-> 0, dividends |-> 0, totalInvestedHistorical |-> 0,
   firstBuyDate |-> 0, firstBuyPrice |-> 0, minBuyPrice |-> Infinity,
   maxBuyPrice |-> 0, maxSellPrice |-> 0, totalSoldShares |-> 0,
   totalSoldRevenue |-> 0, tradeCount |-> 0, lastActionDate |-> 0]

TradePrecision(trade) ==
  IF trade.type = "Crypto" THEN CryptoPrecision ELSE StockPrecision

IsBuyClass(action) ==
  action \in {"Buy", "DRIP", "REWARD", "STAKING", "MINING", "MINT"}
    \/ IncludesBUY(ToUpperCase(action))

\* The loop with a slip: it closes the newest lot first (activeTrades.pop()).
RECURSIVE StatsSellLoopNewestFirst(_, _, _, _)
StatsSellLoopNewestFirst(activeTrades, sharesToSell, salePrice, precision) ==
  IF ~(sharesToSell > 0 /\ Len(activeTrades) > 0)
  THEN [lots |-> activeTrades, pnl |-> 0, taken |-> 0]
  ELSE LET n == Len(activeTrades)
           newestTrade == activeTrades[n]
           availableShares == ToFixed(newestTrade.shares, precision)
           sharesTaken == IF availableShares <= sharesToSell
                          THEN availableShares ELSE sharesToSell
           newShares == ToFixed(newestTrade.shares - sharesTaken, precision)
           rest == IF newShares = 0
                   THEN SubSeq(activeTrades, 1, n - 1)
                   ELSE SubSeq(activeTrades, 1, n - 1)
                          \o <<[newestTrade EXCEPT !.shares = newShares]>>
           r == StatsSellLoopNewestFirst(rest,
                  ToFixed(sharesToSell - sharesTaken, precision), salePrice, precision)
       IN [lots |-> r.lots,
           pnl |-> (sharesTaken * salePrice - sharesTaken * newestTrade.price) + r.pnl,
           taken |-> sharesTaken + r.taken]

\* The FIFO loop that closes lots: lots left, realized P&L, shares taken.
RECURSIVE StatsSellLoop(_, _, _, _)
StatsSellLoop(activeTrades, sharesToSell, salePrice, precision) ==
  IF ~(sharesToSell > 0 /\ Len(activeTrades) > 0)
  THEN [lots |-> activeTrades, pnl |-> 0, taken |-> 0]
  ELSE LET oldestTrade == Head(activeTrades)
           availableShares == ToFixed(oldestTrade.shares, precision)
           sharesTaken == IF availableShares <= sharesToSell
                          THEN availableShares ELSE sharesToSell
           newShares == ToFixed(oldestTrade.shares - sharesTaken, precision)
           rest == IF newShares = 0
                   THEN Tail(activeTrades)
                   ELSE <<[oldestTrade EXCEPT !.shares = newShares]>>
                          \o Tail(activeTrades)
           costBasis == sharesTaken * oldestTrade.price
           revenue == sharesTaken * salePrice
           r == StatsSellLoop(rest, ToFixed(sharesToSell - sharesTaken, precision),
                              salePrice, precision)
       IN [lots |-> r.lots, pnl |-> (revenue - costBasis) + r.pnl,
           taken |-> sharesTaken + r.taken]

\* The body of the Buy branch.
StatsBuy(portfolio, s, trade) ==
  LET first == s.totalInvestedHistorical = 0
      s1 == [s EXCEPT !.firstBuyDate = IF first THEN trade.date ELSE @,
                      !.firstBuyPrice = IF first THEN trade.unitPrice ELSE @]
      s2 == IF trade.unitPrice > 0
            THEN [s1 EXCEPT
                    !.minBuyPrice = IF trade.unitPrice < @ THEN trade.unitPrice ELSE @,
                    !.maxBuyPrice = IF trade.unitPrice > @ THEN trade.unitPrice ELSE @]
            ELSE s1
      lot == [shares |-> trade.qty, price |-> trade.unitPrice, date |-> trade.date]
  IN [portfolio |-> IF trade.ticker \in DOMAIN portfolio
                    THEN [portfolio EXCEPT ![trade.ticker] = Append(@, lot)]
                    ELSE MapSet(portfolio, trade.ticker, <<lot>>),
      s |-> [s2 EXCEPT !.totalInvestedHistorical = @ + trade.totalSpent],
      taken |-> 0]

\* The body of the Sell branch.
StatsSell(portfolio, s, trade) ==
  LET s1 == [s EXCEPT
               !.maxSellPrice = IF trade.unitPrice > @ THEN trade.unitPrice ELSE @,
               !.totalSoldShares = @ + trade.qty,
               !.totalSoldRevenue = @ + trade.qty * trade.unitPrice]
  IN IF trade.ticker \notin DOMAIN portfolio
     THEN [portfolio |-> portfolio, s |-> s1, taken |-> 0]
     ELSE LET r == StatsSellLoop(portfolio[trade.ticker],
                                 ToFixed(trade.qty, TradePrecision(trade)),
                                 trade.unitPrice, TradePrecision(trade))
          IN [portfolio |-> IF Len(r.lots) = 0
                            THEN MapDelete(portfolio, trade.ticker)
                            ELSE [portfolio EXCEPT ![trade.ticker] = r.lots],
              s |-> [s1 EXCEPT !.tradingPnL = @ + r.pnl],
              taken |-> r.taken]

\* Dividend handling with a slip: the amount is booked as trading P&L too.
StatsDividendAsPnL(portfolio, s, trade) ==
  [portfolio |-> portfolio,
   s |-> [s EXCEPT !.dividends = @ + trade.totalSpent,
                   !.tradingPnL = @ + trade.totalSpent],
   taken |-> 0]

\* Dividend handling: s.dividends += trade.totalSpent; continue.
StatsDividend(portfolio, s, trade) ==
  [portfolio |-> portfolio,
   s |-> [s EXCEPT !.dividends = @ + trade.totalSpent],
   taken |-> 0]

\* One iteration of PHASE 1's loop over the sorted trades.
calculatePortfolioStats(portfolio, statsMap, trade) ==
  LET s0 == IF trade.ticker \in DOMAIN statsMap
            THEN statsMap[trade.ticker] ELSE NewStats(trade.type)
      s == [s0 EXCEPT !.lastActionDate = trade.date, !.tradeCount = @ + 1]
      r == IF trade.action = "Dividend" \/ trade.action = "Dividends"
           THEN StatsDividend(portfolio, s, trade)
           ELSE IF IsBuyClass(trade.action) THEN StatsBuy(portfolio, s, trade)
           ELSE IF trade.action = "Sell" THEN StatsSell(portfolio, s, trade)
           ELSE [portfolio |-> portfolio, s |-> s, taken |-> 0]
  IN [portfolio |-> r.portfolio, stats |-> MapSet(statsMap, trade.ticker, r.s),
      taken |-> r.taken]

\* PHASE 2: tv.shares, the shares in the ticker's open lots.
CurrentShares(portfolio, ticker) ==
  IF ticker \in DOMAIN portfolio THEN SumShares(portfolio[ticker]) ELSE 0

\* PHASE 3: status = (tv.shares > 0.00000001) ? "OPEN" : "CLOSED"
Status(shares) == IF shares > Pow10(ShareDigits - 8) THEN "OPEN" ELSE "CLOSED"

\* --------------------------------------- part_005: PORTFOLIO_EVOLUZIONE
RECURSIVE GCD(_, _)
GCD(a, b) == IF b = 0 THEN a ELSE GCD(b, a % b)

\* trade.qty * (h.invested / h.qty), rounded down to the money unit.
ProportionalCost(invested, tradeQty, qty) ==
  LET g == GCD(IF tradeQty < 0 THEN -tradeQty ELSE tradeQty, qty)
  IN IF g = 0 THEN 0 ELSE (invested * (tradeQty \div g)) \div (qty \div g)

\* One iteration of the loop over historicMoves ("Simple Accumulation Logic").
EvoluzioneMove(hold, trade) ==
  LET h == IF trade.ticker \in DOMAIN hold THEN hold[trade.ticker]
           ELSE [qty |-> 0, invested |-> 0, type |-> trade.type]
      h1 == IF IsBuyClass(trade.action)
            THEN [h EXCEPT !.qty = @ + trade.qty, !.invested = @ + trade.totalSpent]
            ELSE IF trade.action = "Sell"
            THEN (IF h.qty > 0
                  THEN [h EXCEPT !.invested =
                                   @ - ProportionalCost(h.invested, trade.qty, h.qty),
                                 !.qty = @ - trade.qty]
                  ELSE h)
            ELSE IF trade.action = "Split"
            THEN [h EXCEPT !.qty = @ + trade.qty]
            ELSE h
  IN MapSet(hold, trade.ticker, h1)

\* 4. Write Rows: the tickers of a snapshot (data.qty > 0.000001).
SnapshotRows(hold) == {t \in DOMAIN hold : hold[t].qty > Pow10(ShareDigits - 6)}

\* PORTFOLIO_DASHBOARD: the next trade of the list sorted by date.  The crypto
\* sheet's spent column is blank.  PORTFOLIO_EVOLUZIONE is called on the same
\* ranges, and its snapshot at the date of this trade takes the same trade.
PortfolioStatsTrade ==
  /\ entry = "PORTFOLIO_DASHBOARD"
  /\ nTrades < MaxTrades
  /\ \E ticker \in Tickers, action \in Actions, date \in Dates :
       \E quantity \in Qtys(IF TypeOf(ticker) = "Crypto"
                            THEN CryptoPrecision ELSE StockPrecision),
          price \in PriceCells(action) :
         LET trade == normalizeData(date, ticker, action, quantity, price, 0,
                                    IF TypeOf(ticker) = "Crypto" THEN ""
                                    ELSE TypeOf(ticker),
                                    TypeOf(ticker) = "Crypto")
             r == calculatePortfolioStats(psPortfolio, stats, trade)
         IN /\ date >= clock
            /\ clock' = date
            /\ psPortfolio' = r.portfolio
            /\ stats' = r.stats
            /\ bought' = [bought EXCEPT ![ticker] =
                            @ + IF IsBuyClass(trade.action) THEN trade.qty ELSE 0]
            /\ consumed' = [consumed EXCEPT ![ticker] = @ + r.taken]
            /\ last' = trade
            /\ holdings' = EvoluzioneMove(holdings, trade)
  /\ nTrades' = nTrades + 1
  /\ UNCHANGED <<entry, pfPortfolio>>
  /\ UNCHANGED zainettoVars
  /\ UNCHANGED reportVars
  /\ UNCHANGED unitVars

\* ------------------------------------- part_005: calculateZainettoReport
NewYearlyStats == [gainCompensabile |-> 0, gainNonCompensabile |-> 0, lossAnno |-> 0]

\* 3. Aggregate Annual P&L: the ledger rows of one year, folded into its
\* yearlyStats entry.
RECURSIVE AggregateAnnualPnL(_, _)
AggregateAnnualPnL(trades, s) ==
  IF trades = <<>> THEN s
  ELSE LET t == Head(trades)
           s1 == IF t.pnl >= 0
                 THEN IF t.type = "ETF"
                      THEN [s EXCEPT !.gainNonCompensabile = @ + t.pnl]
                      ELSE [s EXCEPT !.gainCompensabile = @ + t.pnl]
                 ELSE [s EXCEPT !.lossAnno = @ + (-t.pnl)]
       IN AggregateAnnualPnL(Tail(trades), s1)

\* 2. Retrieve Dividends: yearlyDividends.get(year) || 0
RECURSIVE SumDividends(_)
SumDividends(divs) ==
  IF divs = <<>> THEN 0 ELSE Head(divs) + SumDividends(Tail(divs))

RECURSIVE SumBucket(_, _)
SumBucket(bucket, keys) ==
  IF keys = {} THEN 0
  ELSE LET k == CHOOSE x \in keys : TRUE
       IN bucket[k] + SumBucket(bucket, keys \ {k})

\* The sort with a slip: descending, so the newest origin year comes first.
MaxOf(set) == CHOOSE x \in set : \A y \in set : x >= y

\* availableYears sorted ascending: the origin year the loop visits next.
MinOf(set) == CHOOSE x \in set : \A y \in set : x <= y
NoTakes == [y \in Years |-> 0]

\* The expiry test with a slip: an entry is skipped from its fourth year on.
IsExpiredAtFour(year, pastYear) == year - pastYear >= BasketYears

\* year - pastYear > 4: the entry is skipped by the drawdown.
IsExpired(year, pastYear) == year - pastYear > BasketYears

\* The loop over availableYears (ascending): the bucket after it, what is left
\* of the gain, and what each origin year gave.
RECURSIVE DrawLoop(_, _, _, _, _)
DrawLoop(bucket, availableYears, year, remainingGain, takes) ==
  IF availableYears = {}
  THEN [bucket |-> bucket, remainingGain |-> remainingGain, takes |-> takes]
  ELSE LET pastYear == MinOf(availableYears)
           later == availableYears \ {pastYear}
       IN IF IsExpired(year, pastYear)
          THEN DrawLoop(bucket, later, year, remainingGain, takes)
          ELSE LET available == bucket[pastYear]
                   take == IF available <= remainingGain THEN available
                           ELSE remainingGain
                   b1 == IF available - take = 0
                         THEN MapDelete(bucket, pastYear)
                         ELSE [bucket EXCEPT ![pastYear] = available - take]
                   t1 == [takes EXCEPT ![pastYear] = @ + take]
               IN IF remainingGain - take = 0
                  THEN [bucket |-> b1, remainingGain |-> 0, takes |-> t1]
                  ELSE DrawLoop(b1, later, year, remainingGain - take, t1)

\* The compensable gain with a slip: ETF gains are offset by the basket too.
TradingGainWithEtf(s) == s.gainCompensabile + s.gainNonCompensabile

\* let tradingGain = s.gainCompensabile
TradingGain(s) == s.gainCompensabile

\* A. USE BASKET
UseBasket(bucket, year, s, gainNoComp) ==
  IF TradingGain(s) > 0
  THEN LET r == DrawLoop(bucket, DOMAIN bucket, year, TradingGain(s), NoTakes)
       IN [bucket |-> r.bucket,
           usedZainetto |-> TradingGain(s) - r.remainingGain,
           taxableBase |-> gainNoComp + r.remainingGain,
           takes |-> r.takes]
  ELSE [bucket |-> bucket, usedZainetto |-> 0, taxableBase |-> gainNoComp,
        takes |-> NoTakes]

\* B with a slip: the new entry holds the year's gross losses.
NewLossesGross(a, year, s, gainNoComp) ==
  IF s.lossAnno > 0 /\ s.gainCompensabile - s.lossAnno < 0
  THEN [a EXCEPT !.bucket = MapSet(a.bucket, year, s.lossAnno),
                 !.usedZainetto = 0,
                 !.taxableBase = gainNoComp]
  ELSE a

\* B. NEW LOSSES
NewLosses(a, year, s, gainNoComp) ==
  IF s.lossAnno > 0 /\ s.gainCompensabile - s.lossAnno < 0
  THEN [a EXCEPT !.bucket = MapSet(a.bucket, year, s.lossAnno - s.gainCompensabile),
                 !.usedZainetto = 0,
                 !.taxableBase = gainNoComp]
  ELSE a

\* C. CLEAN EXPIRED LOSSES: the bucket after it, and expiredAmount.
CleanExpired(bucket, year) ==
  LET expiryYearLimit == year - BasketYears
  IN IF expiryYearLimit \in DOMAIN bucket
     THEN [bucket |-> MapDelete(bucket, expiryYearLimit),
           expiredAmount |-> bucket[expiryYearLimit]]
     ELSE [bucket |-> bucket, expiredAmount |-> 0]

\* D. STRATEGIC ANALYSIS: the notes of the row, by their kind.
StrategicNotes(bucket, year, gainNoComp, expiredAmount, usedZainetto) ==
  LET totalResiduo == SumBucket(bucket, DOMAIN bucket)
      nextExpiryAmount ==
        SumBucket(bucket, {y \in DOMAIN bucket : BasketYears - (year - y) = 0})
      n1 == IF nextExpiryAmount > 0 THEN {"URGENT"} ELSE {}
      n2 == IF gainNoComp > 0 /\ totalResiduo > 0 THEN {"INEFFICIENT"}
            ELSE IF gainNoComp > 0 THEN {"TAX_ON_ETF_DIV"} ELSE {}
      n3 == IF expiredAmount > 0 THEN {"EXPIRED"} ELSE {}
      n4 == IF usedZainetto > 0 THEN {"RECOVERED"} ELSE {}
      notes == n1 \cup n2 \cup n3 \cup n4
  IN (IF notes = {}
      THEN (IF totalResiduo > 0 THEN {"BASKET_ACTIVE"} ELSE {"NO_RESIDUAL"})
      ELSE notes) \cup {"CRYPTO_EXCLUDED"}

\* One iteration of the loop over the sorted years: the bucket after it and
\* the row it pushes.  Money is in whole units, the tax in hundredths.
calculateZainettoReport(bucket, year, s, divs) ==
  LET gainNoComp == s.gainNonCompensabile + divs
      a == UseBasket(bucket, year, s, gainNoComp)
      b == NewLosses(a, year, s, gainNoComp)
      c == CleanExpired(b.bucket, year)
  IN [bucket |-> c.bucket,
      takes |-> a.takes,
      row |-> [year |-> year,
               gainCompensabile |-> s.gainCompensabile,
               gainNoComp |-> gainNoComp,
               newLosses |-> IF s.lossAnno > s.gainCompensabile
                             THEN s.lossAnno - s.gainCompensabile ELSE 0,
               usedZainetto |-> b.usedZainetto,
               expiredAmount |-> c.expiredAmount,
               taxableBase |-> b.taxableBase,
               estimatedTax100 |-> b.taxableBase * TaxRatePct,
               totalResiduo |-> SumBucket(c.bucket, DOMAIN c.bucket),
               notes |-> StrategicNotes(c.bucket, year, gainNoComp,
                                        c.expiredAmount, b.usedZainetto)]]

NoRow ==
  [year |-> 0, gainCompensabile |-> 0, gainNoComp |-> 0, newLosses |-> 0,
   usedZainetto |-> 0, expiredAmount |-> 0, taxableBase |-> 0,
   estimatedTax100 |-> 0, totalResiduo |-> 0, notes |-> {}]

\* REPORT_ZAINETTO: the next year that has a sale in the ledger or a dividend
\* (the keys of yearlyStats, ascending); years without either have no row.
ZainettoYear ==
  /\ entry = "REPORT_ZAINETTO"
  /\ \E year \in {y \in Years : y > zYear} :
     \E trades \in SalesOfYear, dividends \in DividendsOfYear :
       LET s == AggregateAnnualPnL(trades, NewYearlyStats)
           divs == SumDividends(dividends)
           r == calculateZainettoReport(minusBucket, year, s, divs)
       IN /\ trades # <<>> \/ dividends # <<>>
          /\ zYear' = year
          /\ minusBucket' = r.bucket
          /\ zStats' = [s |-> s, divs |-> divs]
          /\ zTakes' = r.takes
          /\ zRow' = r.row
  /\ UNCHANGED entry
  /\ UNCHANGED fifoVars
  /\ UNCHANGED reportVars
  /\ UNCHANGED unitVars

\* ------------------------------ part_005: the report functions on an array
\* Quantity cells of the sheets the reports are run on.
ReportQtys(precision) == {5 * Unit(precision), 7 * Unit(precision)}

\* cleanData.sort((a, b) => a.date - b.date) leaves the records in date order.
IsSortedByDate(list) ==
  \A i \in 1..(Len(list) - 1) : list[i].date <= list[i + 1].date

\* Array.prototype.sort with (a, b) => a.date - b.date: ascending by date,
\* records of one date in the order they had (the sort is stable).
RECURSIVE InsertByDate(_, _)
InsertByDate(sorted, trade) ==
  IF sorted = <<>> THEN <<trade>>
  ELSE IF sorted[Len(sorted)].date <= trade.date THEN Append(sorted, trade)
  ELSE Append(InsertByDate(SubSeq(sorted, 1, Len(sorted) - 1), trade),
              sorted[Len(sorted)])

RECURSIVE SortByDate(_)
SortByDate(list) ==
  IF list = <<>> THEN <<>>
  ELSE InsertByDate(SortByDate(SubSeq(list, 1, Len(list) - 1)), list[Len(list)])

\* The maps with a slip: they are kept between calls instead of made anew.
ReusedMap(previous) == previous

\* let portfolio = new Map(); let stats = new Map(): whatever an earlier call
\* built, the call starts from empty maps.
NewMap(previous) == EmptyMap

\* PHASE 1: the loop over the sorted trades.  The maps after an iteration are
\* bound through a one-element set, so that they are computed once and the
\* next iteration works on their value.
RECURSIVE PortfolioStatsLoop(_, _, _)
PortfolioStatsLoop(trades, portfolio, statsMap) ==
  IF trades = <<>> THEN [portfolio |-> portfolio, stats |-> statsMap]
  ELSE CHOOSE out \in
         {PortfolioStatsLoop(Tail(trades), r.portfolio, r.stats) :
            r \in {calculatePortfolioStats(portfolio, statsMap, Head(trades))}} : TRUE

\* PHASE 2: currentBookValue of a ticker.
BookValue(portfolio, ticker) ==
  IF ticker \in DOMAIN portfolio THEN TotalCost(portfolio[ticker]) ELSE 0

RECURSIVE GrandTotalBookValue(_, _)
GrandTotalBookValue(portfolio, tickers) ==
  IF tickers = {} THEN 0
  ELSE LET t == CHOOSE x \in tickers : TRUE
       IN BookValue(portfolio, t) + GrandTotalBookValue(portfolio, tickers \ {t})

\* A quotient a / b the code guards with b > 0, kept exact as the pair <<a, b>>.
Quotient(a, b) == IF b > 0 THEN <<a, b>> ELSE <<0, 1>>

\* PHASE 3: the output row of every ticker of stats (the analysis notes, a
\* function of the other columns, are left out).
DashboardOutput(portfolio, statsMap, today) ==
  [ticker \in DOMAIN statsMap |->
     LET s == statsMap[ticker]
         shares == CurrentShares(portfolio, ticker)
         bookVal == BookValue(portfolio, ticker)
         activeSince == IF ticker \in DOMAIN portfolio /\ Len(portfolio[ticker]) > 0
                        THEN portfolio[ticker][1].date ELSE 0
         totalRealizedPnL == s.tradingPnL + s.dividends
     IN [type |-> s.type,
         status |-> Status(shares),
         shares |-> shares,
         avgPrice |-> Quotient(bookVal, shares),
         totalInvestedHistorical |-> s.totalInvestedHistorical,
         tradingPnL |-> s.tradingPnL,
         dividends |-> s.dividends,
         totalRealizedPnL |-> totalRealizedPnL,
         breakEven |-> Quotient(bookVal - totalRealizedPnL, shares),
         bookVal |-> bookVal,
         allocationPct |-> Quotient(bookVal,
                                    GrandTotalBookValue(portfolio, DOMAIN statsMap)),
         tradingRoiPct |-> Quotient(s.tradingPnL, s.totalInvestedHistorical),
         totalRoiPct |-> Quotient(totalRealizedPnL, s.totalInvestedHistorical),
         firstBuyDate |-> s.firstBuyDate,
         firstBuyPrice |-> s.firstBuyPrice,
         finalMinPrice |-> IF s.minBuyPrice = Infinity THEN 0 ELSE s.minBuyPrice,
         maxBuyPrice |-> s.maxBuyPrice,
         maxSellPrice |-> s.maxSellPrice,
         avgSellPrice |-> Quotient(s.totalSoldRevenue, s.totalSoldShares),
         daysHeld |-> IF Status(shares) = "OPEN" /\ activeSince # 0
                      THEN today - activeSince ELSE 0,
         lastActionDate |-> s.lastActionDate,
         tradeCount |-> s.tradeCount]]

\* let today = new Date(): the runs of one recalculation share the day.
Today == MaxDate

\* calculatePortfolioStats(allData): sorts the array it is given, builds its
\* maps and returns the table.
CallPortfolioStats ==
  /\ entry = "REPORTS"
  /\ Len(results) < MaxCalls
  /\ \E sorted \in {SortByDate(allData)} :
       \E r \in {PortfolioStatsLoop(sorted, NewMap(psPortfolio), NewMap(stats))} :
         /\ allData' = sorted
         /\ psPortfolio' = r.portfolio
         /\ stats' = r.stats
         /\ results' = Append(results,
                              [fn |-> "calculatePortfolioStats",
                               table |-> DashboardOutput(r.portfolio, r.stats, Today)])
  /\ UNCHANGED <<entry, nTrades, clock, pfPortfolio, bought, consumed, last, holdings>>
  /\ UNCHANGED zainettoVars
  /\ UNCHANGED <<stockData, cryptoData, fiscal, sheet>>
  /\ UNCHANGED unitVars

\* Utilities.formatDate(date, tz, "yyyy"): the dates of the model lie one
\* year apart, the first of them in FirstYear.
YearOf(date) == FirstYear + (date - 1)

\* The header row of the fiscal report.
FiscalHeader ==
  [date |-> 0, year |-> 0, ticker |-> "Ticker", type |-> "Type", sharesSold |-> 0,
   salePrice |-> 0, avgBuy |-> <<0, 1>>, pnl |-> 0, tax100 |-> 0, minus |-> 0]

\* The while loop of calculateFiscalReportDetails: lots left, cost of the
\* shares taken, shares sold.
RECURSIVE FiscalSellLoop(_, _, _)
FiscalSellLoop(activeTrades, sharesToSell, precision) ==
  IF ~(sharesToSell > 0 /\ Len(activeTrades) > 0)
  THEN [lots |-> activeTrades, totalCost |-> 0, sharesSold |-> 0]
  ELSE LET oldestTrade == Head(activeTrades)
           availableShares == ToFixed(oldestTrade.shares, precision)
           sharesTaken == IF availableShares <= sharesToSell
                          THEN availableShares ELSE sharesToSell
           newShares == ToFixed(oldestTrade.shares - sharesTaken, precision)
           rest == IF newShares = 0
                   THEN Tail(activeTrades)
                   ELSE <<[oldestTrade EXCEPT !.shares = newShares]>>
                          \o Tail(activeTrades)
           r == FiscalSellLoop(rest, ToFixed(sharesToSell - sharesTaken, precision),
                               precision)
       IN [lots |-> r.lots,
           totalCost |-> sharesTaken * oldestTrade.price + r.totalCost,
           sharesSold |-> sharesTaken + r.sharesSold]

\* The fiscal report's map with a slip: it starts from the lots the dashboard
\* run left (one map shared by the reports).
FiscalSharedMap(shared) ==
  [t \in DOMAIN shared |->
     [i \in 1..Len(shared[t]) |->
        [shares |-> shared[t][i].shares, price |-> shared[t][i].price]]]

\* let portfolio = new Map() of calculateFiscalReportDetails.
FiscalNewMap(shared) == EmptyMap

\* The tax with a slip: 26% of the P&L whatever its sign.
TaxOnEveryPnL(pnl) == pnl * TaxRatePct

\* let tax = (pnl > 0) ? pnl * 0.26 : 0, in hundredths.
FiscalTax(pnl) == IF pnl > 0 THEN pnl * TaxRatePct ELSE 0

\* One iteration of calculateFiscalReportDetails' loop over the sorted trades:
\* the lot map and the report after it.  The tax is in hundredths.
calculateFiscalReportDetails(portfolio, report, trade) ==
  LET ticker == trade.ticker
      precision == TradePrecision(trade)
  IN IF IsBuyClass(trade.action)
     THEN LET lot == [shares |-> trade.qty, price |-> trade.unitPrice]
          IN [portfolio |-> IF ticker \in DOMAIN portfolio
                            THEN [portfolio EXCEPT ![ticker] = Append(@, lot)]
                            ELSE MapSet(portfolio, ticker, <<lot>>),
              report |-> report]
     ELSE IF trade.action = "Sell" /\ ticker \in DOMAIN portfolio
     THEN LET r == FiscalSellLoop(portfolio[ticker], ToFixed(trade.qty, precision),
                                  precision)
              pnl == r.sharesSold * trade.unitPrice - r.totalCost
              row == [date |-> trade.date, year |-> YearOf(trade.date),
                      ticker |-> ticker, type |-> trade.type,
                      sharesSold |-> r.sharesSold, salePrice |-> trade.unitPrice,
                      avgBuy |-> <<r.totalCost, r.sharesSold>>,
                      pnl |-> pnl,
                      tax100 |-> FiscalTax(pnl),
                      minus |-> IF pnl < 0 THEN -pnl ELSE 0]
          IN [portfolio |-> IF Len(r.lots) = 0 THEN MapDelete(portfolio, ticker)
                            ELSE [portfolio EXCEPT ![ticker] = r.lots],
              report |-> IF r.sharesSold > 0 THEN Append(report, row) ELSE report]
     ELSE [portfolio |-> portfolio, report |-> report]

\* The map and the report before the loop.
FiscalStart(portfolio) == [portfolio |-> portfolio, report |-> <<FiscalHeader>>]

RECURSIVE FiscalReportLoop(_, _)
FiscalReportLoop(trades, f) ==
  IF trades = <<>> THEN f
  ELSE CHOOSE out \in
         {FiscalReportLoop(Tail(trades), g) :
            g \in {calculateFiscalReportDetails(f.portfolio, f.report, Head(trades))}} :
         TRUE

\* calculateFiscalReportDetails(allData) for an array already sorted.
FiscalReport(sorted, portfolio) == FiscalReportLoop(sorted, FiscalStart(portfolio)).report

\* calculateFiscalReportDetails(allData): sorts the array it is given and
\* returns the list of sales.
CallFiscalReportDetails ==
  /\ entry = "REPORTS"
  /\ Len(results) < MaxCalls
  /\ \E sorted \in {SortByDate(allData)} :
       \E f \in {FiscalReportLoop(sorted, FiscalStart(FiscalNewMap(psPortfolio)))} :
         /\ allData' = sorted
         /\ fiscal' = f
         /\ results' = Append(results,
                              [fn |-> "calculateFiscalReportDetails",
                               table |-> f.report])
  /\ UNCHANGED <<entry, stockData, cryptoData, sheet>>
  /\ UNCHANGED fifoVars
  /\ UNCHANGED zainettoVars
  /\ UNCHANGED unitVars

\* 2. Retrieve Dividends: yearlyDividends.get(year) || 0 from the array.
RECURSIVE DividendsOf(_, _)
DividendsOf(data, year) ==
  IF data = <<>> THEN 0
  ELSE (IF (Head(data).action = "Dividend" \/ Head(data).action = "Dividends")
           /\ YearOf(Head(data).date) = year
        THEN Head(data).totalSpent ELSE 0) + DividendsOf(Tail(data), year)

\* The rows of the fiscal report (header removed) that fall in a year.
RECURSIVE TradesOfYear(_, _)
TradesOfYear(trades, year) ==
  IF trades = <<>> THEN <<>>
  ELSE (IF Head(trades).year = year THEN <<Head(trades)>> ELSE <<>>)
         \o TradesOfYear(Tail(trades), year)

\* The keys of yearlyStats: years with a sale in the report or a dividend.
ReportYears(trades, data) ==
  {trades[i].year : i \in 1..Len(trades)}
    \cup {YearOf(data[i].date) :
            i \in {j \in 1..Len(data) : data[j].action \in {"Dividend", "Dividends"}}}

ZainettoHeader == [NoRow EXCEPT !.notes = {"Analysis & Strategy"}]

\* The loop over the years, ascending: the report rows.
RECURSIVE ZainettoLoop(_, _, _, _, _)
ZainettoLoop(years, bucket, trades, data, report) ==
  IF years = {} THEN report
  ELSE CHOOSE out \in
         {ZainettoLoop(years \ {year}, r.bucket, trades, data, Append(report, r.row)) :
            year \in {MinOf(years)},
            r \in {calculateZainettoReport(
                     bucket, MinOf(years),
                     AggregateAnnualPnL(TradesOfYear(trades, MinOf(years)),
                                        NewYearlyStats),
                     DividendsOf(data, MinOf(years)))}} : TRUE

\* calculateZainettoReport(allData) for an array already sorted by the
\* fiscal report it calls first.
ZainettoReport(sorted) ==
  LET trades == Tail(FiscalReport(sorted, EmptyMap))
  IN ZainettoLoop(ReportYears(trades, sorted), EmptyMap, trades, sorted,
                  <<ZainettoHeader>>)

\* calculateZainettoReport(allData)
CallZainettoReport ==
  /\ entry = "REPORTS"
  /\ Len(results) < MaxCalls
  /\ \E sorted \in {SortByDate(allData)} :
       /\ allData' = sorted
       /\ results' = Append(results,
                            [fn |-> "calculateZainettoReport",
                             table |-> ZainettoReport(sorted)])
  /\ UNCHANGED <<entry, stockData, cryptoData, fiscal, sheet>>
  /\ UNCHANGED fifoVars
  /\ UNCHANGED zainettoVars
  /\ UNCHANGED unitVars

\* -------------------------------------- part_005: normalizeData on a sheet
NoSheet == [stock |-> <<>>, crypto |-> <<>>]

\* Quantity cells: numbers (one of them negative), the blank cell, text, a
\* number typed with a decimal comma and a negative number typed as text.
QtyCells ==
  {NumberCell(-5 * Unit(StockPrecision)), NumberCell(5 * Unit(StockPrecision)),
   Blank, StringCell(<<"a", "b", "c">>),
   StringCell(<<"0", ",", "0", "0", "0", "0", "7">>),
   StringCell(<<"-", "0", ".", "0", "0", "0", "0", "5">>)}

\* The other cells of a row: a buy, an ETF dividend, a cash row, and a row
\* with a blank action, its price typed as text and its spent cell filled.
RowKinds ==
  {[ticker |-> "AAA", action |-> "Buy", price |-> NumberCell(10),
    spent |-> Blank, type |-> ""],
   [ticker |-> "AAA", action |-> "Dividend", price |-> NumberCell(20),
    spent |-> Blank, type |-> "ETF"],
   [ticker |-> "CASH", action |-> "Buy", price |-> NumberCell(10),
    spent |-> Blank, type |-> ""],
   [ticker |-> "AAA", action |-> "", price |-> StringCell(<<"$", "1", "0">>),
    spent |-> NumberCell(100), type |-> ""]}

\* The rows of a sheet; the date cell 0 is the blank one.
RawRows ==
  {[date |-> date, ticker |-> k.ticker, action |-> k.action, qty |-> qty,
    price |-> k.price, spent |-> k.spent, type |-> k.type] :
     date \in 0..MaxDate, qty \in QtyCells, k \in RowKinds}

\* parseDate: dateVal ? new Date(dateVal) : new Date()
parseDate(dateVal) == IF dateVal # 0 THEN dateVal ELSE Today

\* ticker.toUpperCase().includes("CASH") || ...includes("EUR")
IsCashRow(ticker) == ticker \in {"CASH", "Cash", "EUR", "EURUSD"}

\* The loop of normalizeData over the rows: cleanData before the sort.
RECURSIVE NormalizeRows(_, _)
NormalizeRows(rows, isCryptoMode) ==
  IF rows = <<>> THEN <<>>
  ELSE LET row == Head(rows)
           rest == NormalizeRows(Tail(rows), isCryptoMode)
       IN IF row.ticker = "" \/ IsCashRow(row.ticker) THEN rest
          ELSE <<normalizeData(parseDate(row.date), row.ticker,
                               IF row.action # "" THEN row.action ELSE "Buy",
                               cleanNumber(row.qty, ShareDigits),
                               cleanNumber(row.price, 0),
                               cleanNumber(row.spent, ShareDigits),
                               row.type, isCryptoMode)>> \o rest

\* The sort with a slip: left out, the records stay in row order.
RowOrder(cleanData) == cleanData

\* cleanData.sort((a, b) => a.date - b.date) at the end of normalizeData.
SortCleanData(cleanData) == SortByDate(cleanData)

\* normalizeData(dates, security, actions, quantity, priceCol, spentCol,
\* typeCol, isCryptoMode)
NormalizeSheet(rows, isCryptoMode) ==
  SortCleanData(NormalizeRows(rows, isCryptoMode))

\* Rows of the sheets the reports are run on, every cell a number: the stock
\* sheet holds AAA (typed "Stock"), the crypto sheet BTC bought and sold; the
\* spent column is blank.
StockRows ==
  {[date |-> date, ticker |-> "AAA", action |-> "Buy",
    qty |-> NumberCell(quantity), price |-> NumberCell(price), spent |-> Blank,
    type |-> "Stock"] :
     date \in Dates, quantity \in ReportQtys(StockPrecision),
     price \in PriceCells("Buy")}
    \cup {[date |-> date, ticker |-> "AAA", action |-> "Sell",
           qty |-> NumberCell(quantity), price |-> NumberCell(price),
           spent |-> Blank, type |-> "Stock"] :
            date \in Dates, quantity \in ReportQtys(StockPrecision),
            price \in PriceCells("Sell")}
    \cup {[date |-> date, ticker |-> "AAA", action |-> "Dividend",
           qty |-> Blank, price |-> NumberCell(price), spent |-> Blank,
           type |-> "Stock"] :
            date \in Dates, price \in PriceCells("Dividend")}
CryptoRows ==
  {[date |-> date, ticker |-> "BTC", action |-> "Buy",
    qty |-> NumberCell(quantity), price |-> NumberCell(10), spent |-> Blank,
    type |-> ""] :
     date \in Dates, quantity \in ReportQtys(CryptoPrecision)}
    \cup {[date |-> date, ticker |-> "BTC", action |-> "Sell",
           qty |-> NumberCell(quantity), price |-> NumberCell(15),
           spent |-> Blank, type |-> ""] :
            date \in Dates, quantity \in ReportQtys(CryptoPrecision)}

\* The sheets of at most maxLen rows, the rows in any order.
Sheets(rows, maxLen) == UNION {[1..n -> rows] : n \in 0..maxLen}

\* The public functions' first lines: normalizeData on the stock sheet and on
\* the crypto sheet, and the two results concatenated.
CallNormalizeData ==
  /\ entry = "normalizeData"
  /\ LET stock == NormalizeSheet(sheet.stock, FALSE)
         crypto == NormalizeSheet(sheet.crypto, TRUE)
     IN /\ stockData' = stock
        /\ cryptoData' = crypto
        /\ allData' = stock \o crypto
  /\ entry' = "REPORTS"
  /\ UNCHANGED <<results, fiscal, sheet>>
  /\ UNCHANGED fifoVars
  /\ UNCHANGED zainettoVars
  /\ UNCHANGED unitVars

\* ------------------------------------ the engines on rows of any action
\* processFifo (stock interface) on a row whose action cell holds any name.
FifoActionRow ==
  /\ entry = "myStockPositions"
  /\ nTrades < MaxTrades - 1
  /\ \E ticker \in Tickers, action \in ActionNames, date \in Dates :
       \E price \in PriceCells(action) :
         LET quantity == 5 * Unit(EntryPrecision)
             r == processFifo(pfPortfolio, ticker, action, quantity, price, date,
                              EntryPrecision, EntryKeepRows)
         IN /\ pfPortfolio' = r.portfolio
            /\ bought' = [bought EXCEPT ![ticker] =
                            @ + IF IsBuyFifo(action) THEN quantity ELSE 0]
            /\ consumed' = [consumed EXCEPT ![ticker] = @ + r.taken]
            /\ last' = [date |-> date, ticker |-> ticker, action |-> action,
                        qty |-> quantity, unitPrice |-> price,
                        totalSpent |-> 0, type |-> ""]
  /\ nTrades' = nTrades + 1
  /\ UNCHANGED <<entry, clock, psPortfolio, stats, holdings>>
  /\ UNCHANGED zainettoVars
  /\ UNCHANGED reportVars
  /\ UNCHANGED unitVars

\* calculatePortfolioStats and PORTFOLIO_EVOLUZIONE on the next trade of the
\* sorted list, its action cell holding any name.
StatsActionRow ==
  /\ entry = "PORTFOLIO_DASHBOARD"
  /\ nTrades < MaxTrades - 1
  /\ \E ticker \in Tickers, action \in ActionNames, date \in Dates :
       \E price \in PriceCells(action) :
         LET crypto == TypeOf(ticker) = "Crypto"
             quantity == 5 * Unit(IF crypto THEN CryptoPrecision ELSE StockPrecision)
             trade == normalizeData(date, ticker, action, quantity, price, 0,
                                    IF crypto THEN "" ELSE TypeOf(ticker), crypto)
             r == calculatePortfolioStats(psPortfolio, stats, trade)
         IN /\ date >= clock
            /\ clock' = date
            /\ psPortfolio' = r.portfolio
            /\ stats' = r.stats
            /\ bought' = [bought EXCEPT ![ticker] =
                            @ + IF IsBuyClass(trade.action) THEN trade.qty ELSE 0]
            /\ consumed' = [consumed EXCEPT ![ticker] = @ + r.taken]
            /\ last' = trade
            /\ holdings' = EvoluzioneMove(holdings, trade)
  /\ nTrades' = nTrades + 1
  /\ UNCHANGED <<entry, pfPortfolio>>
  /\ UNCHANGED zainettoVars
  /\ UNCHANGED reportVars
  /\ UNCHANGED unitVars

\* calculateFiscalReportDetails on the next trade of the sorted list, its
\* action cell holding any name.
FiscalActionRow ==
  /\ entry = "REPORT_FISCALE"
  /\ nTrades < MaxTrades - 1
  /\ \E ticker \in Tickers, action \in ActionNames, date \in Dates :
       \E price \in PriceCells(action) :
         LET crypto == TypeOf(ticker) = "Crypto"
             quantity == 5 * Unit(IF crypto THEN CryptoPrecision ELSE StockPrecision)
             trade == normalizeData(date, ticker, action, quantity, price, 0,
                                    IF crypto THEN "" ELSE TypeOf(ticker), crypto)
         IN /\ date >= clock
            /\ clock' = date
            /\ fiscal' = calculateFiscalReportDetails(fiscal.portfolio, fiscal.report,
                                                      trade)
            /\ last' = trade
  /\ nTrades' = nTrades + 1
  /\ UNCHANGED <<entry, pfPortfolio, psPortfolio, stats, bought, consumed, holdings>>
  /\ UNCHANGED zainettoVars
  /\ UNCHANGED <<stockData, cryptoData, allData, results, sheet>>
  /\ UNCHANGED unitVars

\* calculateFiscalReportDetails on the next trade of the sorted list.
FiscalTrade ==
  /\ entry = "REPORT_FISCALE"
  /\ nTrades < MaxTrades
  /\ \E ticker \in Tickers, action \in Actions, date \in Dates :
       \E quantity \in Qtys(IF TypeOf(ticker) = "Crypto"
                            THEN CryptoPrecision ELSE StockPrecision),
          price \in PriceCells(action) :
         LET trade == normalizeData(date, ticker, action, quantity, price, 0,
                                    IF TypeOf(ticker) = "Crypto" THEN ""
                                    ELSE TypeOf(ticker),
                                    TypeOf(ticker) = "Crypto")
         IN /\ date >= clock
            /\ clock' = date
            /\ fiscal' = calculateFiscalReportDetails(fiscal.portfolio, fiscal.report,
                                                      trade)
            /\ last' = trade
  /\ nTrades' = nTrades + 1
  /\ UNCHANGED <<entry, pfPortfolio, psPortfolio, stats, bought, consumed, holdings>>
  /\ UNCHANGED zainettoVars
  /\ UNCHANGED <<stockData, cryptoData, allData, results, sheet>>
  /\ UNCHANGED unitVars

\* PORTFOLIO_DASHBOARD and REPORT_FISCALE on the same sheets: the loops of
\* calculatePortfolioStats and of calculateFiscalReportDetails on the next
\* trade of the one sorted list.
StatsAndFiscalTrade ==
  /\ entry = "PORTFOLIO_DASHBOARD, REPORT_FISCALE"
  /\ nTrades < MaxTrades
  /\ \E ticker \in Tickers, action \in Actions, date \in Dates :
       \E quantity \in Qtys(IF TypeOf(ticker) = "Crypto"
                            THEN CryptoPrecision ELSE StockPrecision),
          price \in PriceCells(action) :
         LET trade == normalizeData(date, ticker, action, quantity, price, 0,
                                    IF TypeOf(ticker) = "Crypto" THEN ""
                                    ELSE TypeOf(ticker),
                                    TypeOf(ticker) = "Crypto")
             r == calculatePortfolioStats(psPortfolio, stats, trade)
         IN /\ date >= clock
            /\ clock' = date
            /\ psPortfolio' = r.portfolio
            /\ stats' = r.stats
            /\ fiscal' = calculateFiscalReportDetails(fiscal.portfolio, fiscal.report,
                                                      trade)
            /\ last' = trade
  /\ nTrades' = nTrades + 1
  /\ UNCHANGED <<entry, pfPortfolio, bought, consumed, holdings>>
  /\ UNCHANGED zainettoVars
  /\ UNCHANGED <<stockData, cryptoData, allData, results, sheet>>
  /\ UNCHANGED unitVars

\* PORTFOLIO_EVOLUZIONE on sheets whose quantity cells are not negative: one
\* iteration of the loop over historicMoves.  The holdings after each move are
\* those of the snapshot whose cutoffDate falls right after it.
HeldQtys(precision) == {q \in Qtys(precision) : q >= 0}

PORTFOLIO_EVOLUZIONE ==
  /\ entry = "PORTFOLIO_EVOLUZIONE"
  /\ nTrades < MaxTrades
  /\ \E ticker \in Tickers, action \in Actions \cup {"Split"}, date \in Dates :
       \E quantity \in HeldQtys(IF TypeOf(ticker) = "Crypto"
                                THEN CryptoPrecision ELSE StockPrecision),
          price \in PriceCells(action) :
         LET trade == normalizeData(date, ticker, action, quantity, price, 0,
                                    IF TypeOf(ticker) = "Crypto" THEN ""
                                    ELSE TypeOf(ticker),
                                    TypeOf(ticker) = "Crypto")
         IN /\ date >= clock
            /\ clock' = date
            /\ last' = trade
            /\ holdings' = EvoluzioneMove(holdings, trade)
  /\ nTrades' = nTrades + 1
  /\ UNCHANGED <<entry, pfPortfolio, psPortfolio, stats, bought, consumed>>
  /\ UNCHANGED zainettoVars
  /\ UNCHANGED reportVars
  /\ UNCHANGED unitVars

\* ------------------------------------------------- the FIFO sell loops
\* One iteration of the while loop of processFifo with a slip: a lot that is
\* sold out stays in the queue with zero shares.
FifoIterationKeepsClosedLot(activeTrades, sharesToSell, precision) ==
  LET oldestTrade == Head(activeTrades)
      availableShares == ToFixed(oldestTrade.shares, precision)
  IN IF availableShares <= sharesToSell
     THEN [lots |-> <<[oldestTrade EXCEPT !.shares = 0]>> \o Tail(activeTrades),
           sharesToSell |-> ToFixed(sharesToSell - availableShares, precision)]
     ELSE [lots |-> <<[oldestTrade EXCEPT
                         !.shares = ToFixed(availableShares - sharesToSell,
                                            precision)]>>
                    \o Tail(activeTrades),
           sharesToSell |-> 0]

\* One iteration of the while loop of processFifo.
FifoIteration(activeTrades, sharesToSell, precision) ==
  LET oldestTrade == Head(activeTrades)
      availableShares == ToFixed(oldestTrade.shares, precision)
  IN IF availableShares <= sharesToSell
     THEN [lots |-> Tail(activeTrades),
           sharesToSell |-> ToFixed(sharesToSell - availableShares, precision)]
     ELSE [lots |-> <<[oldestTrade EXCEPT
                         !.shares = ToFixed(availableShares - sharesToSell,
                                            precision)]>>
                    \o Tail(activeTrades),
           sharesToSell |-> 0]

\* One iteration of the while loop of calculatePortfolioStats and of the one
\* of calculateFiscalReportDetails: the two treat the queue and the shares to
\* sell with the same statements.
StatsIteration(activeTrades, sharesToSell, precision) ==
  LET oldestTrade == Head(activeTrades)
      availableShares == ToFixed(oldestTrade.shares, precision)
      sharesTaken == IF availableShares <= sharesToSell
                     THEN availableShares ELSE sharesToSell
      newShares == ToFixed(oldestTrade.shares - sharesTaken, precision)
  IN [lots |-> IF newShares = 0
               THEN Tail(activeTrades)
               ELSE <<[oldestTrade EXCEPT !.shares = newShares]>>
                      \o Tail(activeTrades),
      sharesToSell |-> ToFixed(sharesToSell - sharesTaken, precision)]

SellLoops == {"processFifo", "calculatePortfolioStats", "calculateFiscalReportDetails"}

\* Shares of a lot as the Buy branches store them, the quantity cell as it
\* is: the quantities of Qtys, and quantities that end half a unit off the
\* precision (0.5 unit and 5.5 units).
LotShares(precision) ==
  Qtys(precision) \cup {Unit(precision) \div 2, (11 * Unit(precision)) \div 2}

\* Quantity cells of the Sell row.
SellShares(precision) ==
  {5 * Unit(precision), 7 * Unit(precision), Unit(precision) \div 2}

RECURSIVE Queues(_, _)
Queues(shares, n) ==
  IF n = 0 THEN {<<>>}
  ELSE LET shorter == Queues(shares, n - 1)
       IN shorter \cup {Append(q, [shares |-> x, price |-> 10]) :
                          q \in {p \in shorter : Len(p) = n - 1}, x \in shares}

\* while (sharesToSell > 0 && activeTrades.length > 0)
LoopCondition == sellLoop.sharesToSell > 0 /\ Len(sellLoop.lots) > 0

\* One pass through the body of the while loop.
SellLoopIteration ==
  /\ entry = "while (sharesToSell > 0 && activeTrades.length > 0)"
  /\ LoopCondition
  /\ \E r \in {IF sellLoop.fn = "processFifo"
                THEN FifoIteration(sellLoop.lots, sellLoop.sharesToSell,
                                   sellLoop.precision)
                ELSE StatsIteration(sellLoop.lots, sellLoop.sharesToSell,
                                    sellLoop.precision)} :
       sellLoop' = [sellLoop EXCEPT !.lots = r.lots,
                                    !.sharesToSell = r.sharesToSell,
                                    !.iterations = @ + 1]
  /\ UNCHANGED <<entry, cnValue, cnResult, aiM, aiCalls, aiResult>>
  /\ UNCHANGED fifoVars
  /\ UNCHANGED zainettoVars
  /\ UNCHANGED reportVars

\* ------------------------------------------- part_000: the AI entry points
AiFunctions == {"askGemini", "parseExpenseAI", "analyzeAsset"}

\* const MODELS = [...] of each entry point.
MODELS(fn) ==
  IF fn = "analyzeAsset"
  THEN <<"gemini-2.0-flash", "gemini-1.5-flash", "gemini-flash-latest">>
  ELSE <<"gemini-2.0-flash", "gemini-flash-latest", "gemini-2.0-flash-lite">>

\* What UrlFetchApp.fetch does: it throws (code 0), or it returns a response
\* with a status code and a body.  A body is a JSON object with candidates
\* whose text is prose or is itself JSON, a JSON object with an error, a JSON
\* object with neither, or no JSON at all.
Bodies == {"candidates:prose", "candidates:json", "error", "empty", "html"}
Responses ==
  {[code |-> 0, body |-> ""]} \cup [code : {200, 429, 500}, body : Bodies]

HasCandidates(body) == body \in {"candidates:prose", "candidates:json"}

\* The body of the try block of an entry point on a response: it returns a
\* value, goes on to the next model (continue, or the end of the block), or
\* throws.
TryBlock(fn, response) ==
  LET throws == [kind |-> "throw", text |-> ""]
      next == [kind |-> "next", text |-> ""]
      returns == [kind |-> "return", text |-> response.body]
  IN IF response.code = 0 THEN throws
     ELSE IF fn = "askGemini"
     THEN (IF response.body = "html" THEN throws
           ELSE IF response.code = 200 /\ response.body # "error"
           THEN (IF HasCandidates(response.body) THEN returns ELSE throws)
           ELSE next)
     ELSE IF fn = "parseExpenseAI"
     THEN (IF response.code # 200 THEN next
           ELSE IF response.body = "html" THEN throws
           ELSE IF ~HasCandidates(response.body) THEN next
           ELSE IF response.body = "candidates:json" THEN returns
           ELSE throws)
     ELSE (IF response.code = 200
           THEN (IF HasCandidates(response.body) THEN returns ELSE throws)
           ELSE next)

\* The loop body with a slip: the try block has no catch, so an exception
\* leaves the function.
Uncaught(outcome) == outcome

\* catch (e) { console.error(...) }: an exception of the try block ends the
\* iteration, and the loop goes on.
Caught(outcome) ==
  IF outcome.kind = "throw" THEN [kind |-> "next", text |-> ""] ELSE outcome

\* The value an entry point returns after the loop.
Degraded(fn) ==
  CASE fn = "askGemini" -> "All AI models are currently busy. Please try again shortly."
    [] fn = "parseExpenseAI" -> "{ error: All AI models are busy or failed. }"
    [] fn = "analyzeAsset" -> "Error: AI models overloaded."

\* One iteration of the model loop: the fetch and what the entry point does
\* with the response; after the last model, the return that follows the loop.
TryModel ==
  /\ entry \in AiFunctions
  /\ aiResult.kind = "running"
  /\ aiM < Len(MODELS(entry))
  /\ \E response \in Responses :
       \E outcome \in {Caught(TryBlock(entry, response))} :
         /\ aiCalls' = Append(aiCalls, [model |-> MODELS(entry)[aiM + 1],
                                        response |-> response])
         /\ aiM' = aiM + 1
         /\ aiResult' =
              IF outcome.kind = "return" THEN [kind |-> "returned", text |-> outcome.text]
              ELSE IF outcome.kind = "throw" THEN [kind |-> "thrown", text |-> ""]
              ELSE IF aiM + 1 = Len(MODELS(entry))
              THEN [kind |-> "degraded", text |-> Degraded(entry)]
              ELSE aiResult
  /\ UNCHANGED <<entry, cnValue, cnResult, sellLoop>>
  /\ UNCHANGED fifoVars
  /\ UNCHANGED zainettoVars
  /\ UNCHANGED reportVars

\* ------------------------------------------------ part_005: REPORT_ZAINETTO
\* const INCLUDE_CRYPTO_IN_TAX_BASKET = false
INCLUDE_CRYPTO_IN_TAX_BASKET == FALSE

\* Rows of the stock sheet the tax report is run on: a share typed "Stock" and
\* a fund typed "ETF", bought at 10 or 20 and sold at 15.
TaxStockRows ==
  {[date |-> date, ticker |-> k.ticker, action |-> "Buy",
    qty |-> NumberCell(5 * Unit(StockPrecision)), price |-> NumberCell(price),
    spent |-> Blank, type |-> k.type] :
     date \in Dates, price \in PriceCells("Buy"),
     k \in {[ticker |-> "AAA", type |-> "Stock"], [ticker |-> "VWCE", type |-> "ETF"]}}
    \cup {[date |-> date, ticker |-> k.ticker, action |-> "Sell",
           qty |-> NumberCell(5 * Unit(StockPrecision)), price |-> NumberCell(price),
           spent |-> Blank, type |-> k.type] :
            date \in Dates, price \in PriceCells("Sell"),
            k \in {[ticker |-> "AAA", type |-> "Stock"],
                   [ticker |-> "VWCE", type |-> "ETF"]}}

\* REPORT_ZAINETTO(sD, sS, sA, sQ, sP, sT, cD, cS, cA, cQ, cP, cSp)
REPORT_ZAINETTO ==
  /\ entry = "REPORT_ZAINETTO(sheets)"
  /\ \E sData \in {NormalizeSheet(sheet.stock, FALSE)} :
       \E cData \in {IF INCLUDE_CRYPTO_IN_TAX_BASKET
                      THEN NormalizeSheet(sheet.crypto, TRUE) ELSE <<>>} :
         \E sorted \in {SortByDate(sData \o cData)} :
           /\ stockData' = sData
           /\ cryptoData' = cData
           /\ allData' = sorted
           /\ results' = Append(results,
                                [fn |-> "REPORT_ZAINETTO",
                                 table |-> ZainettoReport(sorted)])
  /\ entry' = "returned"
  /\ UNCHANGED <<fiscal, sheet>>
  /\ UNCHANGED fifoVars
  /\ UNCHANGED zainettoVars
  /\ UNCHANGED unitVars

\* ------------------------------------------- part_005: cleanNumber on a cell
\* Amounts as they are written: the digits before and after the decimal sign.
IntParts == {<<"7">>, <<"1", "2">>, <<"1", "2", "3", "4">>}
FracParts == {<<>>, <<"5">>, <<"5", "6">>}
Amounts == [int : IntParts, frac : FracParts]

\* The European form groups thousands with "." and marks decimals with ",";
\* the US form does the opposite.
Forms == {"EU", "US"}
ThousandsSign(form) == IF form = "EU" THEN "." ELSE ","
DecimalSign(form) == IF form = "EU" THEN "," ELSE "."

GroupThousands(int, sign) ==
  IF Len(int) > 3
  THEN SubSeq(int, 1, Len(int) - 3) \o <<sign>> \o SubSeq(int, Len(int) - 2, Len(int))
  ELSE int

\* The amount written in a form, e.g. 1.234,56 and 1,234.56.
Written(amount, form) ==
  GroupThousands(amount.int, ThousandsSign(form))
    \o (IF amount.frac = <<>> THEN <<>>
        ELSE <<DecimalSign(form)>> \o amount.frac)

\* Currency symbols and spaces around the number.
Decorations == {"none", "$1", "$ 1", "EUR 1", "1 EUR", "GBP1", " 1 "}
Decorated(str, decoration) ==
  CASE decoration = "none" -> str
    [] decoration = "$1" -> <<"$">> \o str
    [] decoration = "$ 1" -> <<"$", " ">> \o str
    [] decoration = "EUR 1" -> <<EuroSign, " ">> \o str
    [] decoration = "1 EUR" -> str \o <<" ", EuroSign>>
    [] decoration = "GBP1" -> <<PoundSign>> \o str
    [] decoration = " 1 " -> <<" ">> \o str \o <<" ">>

\* The amount in hundredths.
Hundredths(amount) ==
  DigitsVal(amount.int) * Pow10(MoneyDigits) + FractionVal(amount.frac, MoneyDigits)

\* Cells that hold no number.
Unparseable ==
  {Blank, StringCell(<<"x">>), StringCell(<<"X">>), StringCell(<<" ">>),
   StringCell(<<"a", "b", "c">>), StringCell(<<"-">>), StringCell(<<"n", "/", "a">>),
   StringCell(<<",">>), StringCell(<<"$">>)}

\* The cells cleanNumber is given.
Cells ==
  {StringCell(Decorated(Written(a, f), d)) :
     a \in Amounts, f \in Forms, d \in Decorations}
    \cup Unparseable
    \cup {NumberCell(0), NumberCell(1250), NumberCell(-1250)}

\* cleanNumber(value)
CallCleanNumber ==
  /\ entry = "cleanNumber"
  /\ cnResult' = cleanNumber(cnValue, MoneyDigits)
  /\ entry' = "returned"
  /\ UNCHANGED <<cnValue, aiM, aiCalls, aiResult, sellLoop>>
  /\ UNCHANGED fifoVars
  /\ UNCHANGED zainettoVars
  /\ UNCHANGED reportVars

\* --------------------------------------------------------- specification
InitState ==
  /\ nTrades = 0
  /\ clock = 0
  /\ pfPortfolio = EmptyMap
  /\ psPortfolio = EmptyMap
  /\ stats = EmptyMap
  /\ bought = [t \in Tickers |-> 0]
  /\ consumed = [t \in Tickers |-> 0]
  /\ last = NoTrade
  /\ holdings = EmptyMap
  /\ zYear = 0
  /\ minusBucket = EmptyMap
  /\ zStats = [s |-> NewYearlyStats, divs |-> 0]
  /\ zTakes = NoTakes
  /\ zRow = NoRow

\* No report function has been called.
InitReportVars ==
  /\ stockData = <<>>
  /\ cryptoData = <<>>
  /\ allData = <<>>
  /\ results = <<>>
  /\ fiscal = FiscalStart(EmptyMap)
  /\ sheet = NoSheet

\* No AI entry point is running.
InitAiVars ==
  /\ aiM = 0
  /\ aiCalls = <<>>
  /\ aiResult = [kind |-> "running", text |-> ""]

\* cleanNumber has not been called.
\* No sell loop is being stepped through.
InitSellLoopVars ==
  sellLoop = [fn |-> "", precision |-> 0, queued |-> 0, lots |-> <<>>,
              sharesToSell |-> 0, iterations |-> 0]

InitUnitVars ==
  /\ cnValue = Blank
  /\ cnResult = 0
  /\ InitAiVars
  /\ InitSellLoopVars

\* The lot engines: myStockPositions, myCryptoPositions, PORTFOLIO_DASHBOARD.
Init ==
  /\ entry \in {"myStockPositions", "myCryptoPositions", "PORTFOLIO_DASHBOARD"}
  /\ InitState
  /\ InitReportVars
  /\ InitUnitVars

Next == ProcessFifoRow \/ PortfolioStatsTrade

Spec == Init /\ [][Next]_vars

\* The yearly tax basket: REPORT_ZAINETTO.
InitZainetto ==
  /\ entry = "REPORT_ZAINETTO"
  /\ InitState
  /\ InitReportVars
  /\ InitUnitVars

NextZainetto == ZainettoYear

SpecZainetto == InitZainetto /\ [][NextZainetto]_vars

\* normalizeData on one sheet of raw rows, the other sheet empty.
InitNormalize ==
  /\ entry = "normalizeData"
  /\ InitState
  /\ InitUnitVars
  /\ stockData = <<>>
  /\ cryptoData = <<>>
  /\ allData = <<>>
  /\ results = <<>>
  /\ fiscal = FiscalStart(EmptyMap)
  /\ sheet \in {[stock |-> rows, crypto |-> <<>>] :
                  rows \in Sheets(RawRows, MaxTrades - 1)}
               \cup {[stock |-> <<>>, crypto |-> rows] :
                       rows \in Sheets(RawRows, MaxTrades - 1)}

NextNormalize == CallNormalizeData

SpecNormalize == InitNormalize /\ [][NextNormalize]_vars

\* cleanNumber on one cell.
InitCleanNumber ==
  /\ entry = "cleanNumber"
  /\ InitState
  /\ InitReportVars
  /\ cnValue \in Cells
  /\ cnResult = 0
  /\ InitAiVars
  /\ InitSellLoopVars

NextCleanNumber == CallCleanNumber

SpecCleanNumber == InitCleanNumber /\ [][NextCleanNumber]_vars

\* REPORT_ZAINETTO on the ranges of the stock sheet and of the crypto sheet.
InitTaxBasket ==
  /\ entry = "REPORT_ZAINETTO(sheets)"
  /\ InitState
  /\ InitUnitVars
  /\ stockData = <<>>
  /\ cryptoData = <<>>
  /\ allData = <<>>
  /\ results = <<>>
  /\ fiscal = FiscalStart(EmptyMap)
  /\ sheet \in [stock : Sheets(TaxStockRows, MaxTrades - 1),
                crypto : Sheets(CryptoRows, MaxTrades - 1)]

NextTaxBasket == REPORT_ZAINETTO

SpecTaxBasket == InitTaxBasket /\ [][NextTaxBasket]_vars

\* askGemini, parseExpenseAI or analyzeAsset, at the start of its model loop.
InitAi ==
  /\ entry \in AiFunctions
  /\ InitState
  /\ InitReportVars
  /\ InitUnitVars

NextAi == TryModel

SpecAi == InitAi /\ [][NextAi]_vars

\* The fiscal ledger: REPORT_FISCALE, trade by trade.
InitFiscal ==
  /\ entry = "REPORT_FISCALE"
  /\ InitState
  /\ InitReportVars
  /\ InitUnitVars

NextFiscal == FiscalTrade

SpecFiscal == InitFiscal /\ [][NextFiscal]_vars

\* The dashboard and the fiscal ledger on the same trades.
InitStatsAndFiscal ==
  /\ entry = "PORTFOLIO_DASHBOARD, REPORT_FISCALE"
  /\ InitState
  /\ InitReportVars
  /\ InitUnitVars

NextStatsAndFiscal == StatsAndFiscalTrade

SpecStatsAndFiscal == InitStatsAndFiscal /\ [][NextStatsAndFiscal]_vars

\* The yearly snapshots of the holdings.
InitEvoluzione ==
  /\ entry = "PORTFOLIO_EVOLUZIONE"
  /\ InitState
  /\ InitReportVars
  /\ InitUnitVars

NextEvoluzione == PORTFOLIO_EVOLUZIONE

SpecEvoluzione == InitEvoluzione /\ [][NextEvoluzione]_vars

\* A sell loop at its first test, on any queue of lots.
InitSellLoop ==
  /\ entry = "while (sharesToSell > 0 && activeTrades.length > 0)"
  /\ InitState
  /\ InitReportVars
  /\ cnValue = Blank
  /\ cnResult = 0
  /\ InitAiVars
  /\ \E fn \in SellLoops, precision \in {StockPrecision, CryptoPrecision} :
       \E lots \in Queues(LotShares(precision), MaxLots),
          quantity \in SellShares(precision) :
         sellLoop = [fn |-> fn, precision |-> precision, queued |-> Len(lots),
                     lots |-> lots,
                     sharesToSell |-> ToFixed(quantity, precision),
                     iterations |-> 0]

NextSellLoop == SellLoopIteration

\* The script runs a loop it has entered without interruption: an iteration
\* that can run does run.
SpecSellLoop == InitSellLoop /\ [][NextSellLoop]_vars /\ WF_vars(NextSellLoop)

\* The engines that track holdings, on rows of any action.
InitActions ==
  /\ entry \in {"myStockPositions", "PORTFOLIO_DASHBOARD", "REPORT_FISCALE"}
  /\ InitState
  /\ InitReportVars
  /\ InitUnitVars

NextActions == FifoActionRow \/ StatsActionRow \/ FiscalActionRow

SpecActions == InitActions /\ [][NextActions]_vars

\* The public report functions: the two sheets are normalized and
\* concatenated, and report functions are called on the array.
InitReports ==
  /\ entry = "normalizeData"
  /\ InitState
  /\ InitUnitVars
  /\ stockData = <<>>
  /\ cryptoData = <<>>
  /\ allData = <<>>
  /\ results = <<>>
  /\ fiscal = FiscalStart(EmptyMap)
  /\ sheet \in [stock : Sheets(StockRows, MaxTrades - 1),
                crypto : Sheets(CryptoRows, MaxTrades - 2)]

NextReports ==
  \/ CallNormalizeData
  \/ CallPortfolioStats
  \/ CallFiscalReportDetails
  \/ CallZainettoReport

SpecReports == InitReports /\ [][NextReports]_vars

\* ====================================================== FIFO lot matching
Queue(portfolio, ticker) ==
  IF ticker \in DOMAIN portfolio THEN portfolio[ticker] ELSE <<>>

\* The lot map of the engine that is running.
Portfolio == IF entry = "PORTFOLIO_DASHBOARD" THEN psPortfolio ELSE pfPortfolio

RunPrecision(ticker) ==
  IF entry = "PORTFOLIO_DASHBOARD"
  THEN (IF TypeOf(ticker) = "Crypto" THEN CryptoPrecision ELSE StockPrecision)
  ELSE EntryPrecision

StatOf(statsMap, ticker) ==
  IF ticker \in DOMAIN statsMap THEN statsMap[ticker] ELSE NewStats(TypeOf(ticker))

\* Shares, at the engine's precision, of the first k lots of a queue.
RECURSIVE PrefixAvail(_, _, _)
PrefixAvail(lots, k, precision) ==
  IF k = 0 THEN 0
  ELSE PrefixAvail(lots, k - 1, precision) + ToFixed(lots[k].shares, precision)

\* An oldest-first sale of q shares closes lot j: something is still to sell
\* when the sale reaches it, and that covers the whole lot.
FifoCloses(lots, q, j, precision) ==
  LET left == q - PrefixAvail(lots, j - 1, precision)
  IN left > 0 /\ ToFixed(lots[j].shares, precision) <= left

\* What an oldest-first sale of q shares takes from lot i of the queue `lots`:
\* nothing unless it closed every lot before it and something is still to
\* sell; then the whole lot if that covers it, else what is still to sell.
FifoTakes(lots, q, i, precision) ==
  LET left == q - PrefixAvail(lots, i - 1, precision)
      avail == ToFixed(lots[i].shares, precision)
  IN IF left > 0 /\ \A j \in 1..(i - 1) : FifoCloses(lots, q, j, precision)
     THEN (IF avail <= left THEN avail ELSE left)
     ELSE 0

RECURSIVE FifoPnL(_, _, _, _, _)
FifoPnL(lots, q, salePrice, i, precision) ==
  IF i = 0 THEN 0
  ELSE FifoPnL(lots, q, salePrice, i - 1, precision)
         + (salePrice - lots[i].price) * FifoTakes(lots, q, i, precision)

\* `post` is what an oldest-first sale of q shares leaves of `pre`: the first k
\* lots are gone, each of them covered by what was still to sell; the lots
\* after lot k+1 are untouched; lot k+1 is untouched if nothing was left to
\* sell, and else holds what it had minus what was left.
IsFifoRemainder(pre, post, q, precision) ==
  \E k \in 0..Len(pre) :
    /\ Len(post) = Len(pre) - k
    /\ \A j \in 1..k : FifoCloses(pre, q, j, precision)
    /\ \A i \in 2..Len(post) : post[i] = pre[k + i]
    /\ Len(post) >= 1 =>
         LET left == q - PrefixAvail(pre, k, precision)
             avail == ToFixed(pre[k + 1].shares, precision)
         IN /\ post[1] = [pre[k + 1] EXCEPT !.shares = post[1].shares]
            /\ IF left > 0
               THEN avail > left /\ post[1].shares = avail - left
               ELSE post[1].shares = pre[k + 1].shares

\* The step just taken processed a row with this action.
Processed(action) == nTrades' = nTrades + 1 /\ last'.action = action

\* C1: for every sequence of Buy and Sell trades, after each trade the shares
\* left in a ticker's lots are the shares bought minus the shares the sells
\* consumed, and are never negative (both FIFO engines).
C1_LotsAreBoughtMinusConsumed ==
  \A t \in Tickers :
    /\ SumShares(Queue(Portfolio, t)) = bought[t] - consumed[t]
    /\ SumShares(Queue(Portfolio, t)) >= 0

C4_OversellLeavesNoPosition ==
  [][/\ Processed("Sell") =>
          LET t == last'.ticker
              pre == Queue(Portfolio, t)
              q == ToFixed(last'.qty, RunPrecision(t))
              held == PrefixAvail(pre, Len(pre), RunPrecision(t))
          IN q > held =>
               /\ Queue(Portfolio', t) = <<>>
               /\ SumShares(Queue(Portfolio', t)) >= 0
               /\ consumed'[t] - consumed[t] = held
               /\ entry = "PORTFOLIO_DASHBOARD" =>
                    stats'[t].tradingPnL - StatOf(stats, t).tradingPnL
                      = FifoPnL(pre, held, last'.unitPrice, Len(pre), RunPrecision(t))
     /\ Processed("Buy") =>
          LET t == last'.ticker
          IN Queue(Portfolio, t) = <<>> =>
               SumShares(Queue(Portfolio', t)) = last'.qty]_vars

\* C5: a Dividend trade of amount A adds exactly A to the ticker's dividends
\* and leaves its tradingPnL, its totalInvestedHistorical and every lot queue
\* as they were, whether or not the ticker has lots or ever had a buy.
C5_DividendOnlyAddsDividends ==
  [][(entry = "PORTFOLIO_DASHBOARD" /\ Processed("Dividend")) =>
       LET t == last'.ticker
       IN /\ stats'[t].dividends = StatOf(stats, t).dividends + last'.totalSpent
          /\ stats'[t].tradingPnL = StatOf(stats, t).tradingPnL
          /\ stats'[t].totalInvestedHistorical
               = StatOf(stats, t).totalInvestedHistorical
          /\ psPortfolio' = psPortfolio]_vars

\* C5 witness: a dividend of 20 on a ticker that never had a buy, while the
\* other ticker holds a lot.
C5_Witness ==
  /\ entry = "PORTFOLIO_DASHBOARD"
  /\ last.action = "Dividend" /\ last.ticker = "AAA" /\ last.totalSpent = 20
  /\ stats["AAA"].tradeCount = 1
  /\ stats["AAA"].dividends = 20
  /\ stats["AAA"].tradingPnL = 0
  /\ "AAA" \notin DOMAIN psPortfolio
  /\ "BTC" \in DOMAIN psPortfolio

\* ======================================================= yearly tax basket
\* The entries of a bucket that report year `year` may still draw on.
Usable(bucket, year) == {o \in DOMAIN bucket : year - o <= 4}

SumTakes(takes) == SumBucket(takes, DOMAIN takes)

MinNat(a, b) == IF a <= b THEN a ELSE b

\* The step just taken pushed the row of a report year.
YearProcessed == zYear' # zYear

\* C6: a basket entry of origin year Y is drawn on in the report years Y+1 to
\* Y+4 and in no other: a drawdown takes only from entries one to four years
\* old, it takes the compensable gain or all those entries hold, whichever is
\* less, and an entry less than four years old stays in the basket with what
\* was not taken.
C6_EntryUsableForFourYears ==
  [][YearProcessed =>
       LET usable == Usable(minusBucket, zYear')
           gain == zStats'.s.gainCompensabile
       IN /\ \A o \in Years :
               zTakes'[o] > 0 =>
                 /\ o \in DOMAIN minusBucket
                 /\ zYear' - o >= 1 /\ zYear' - o <= 4
                 /\ zTakes'[o] <= minusBucket[o]
          /\ SumTakes(zTakes') = MinNat(gain, SumBucket(minusBucket, usable))
          /\ \A o \in DOMAIN minusBucket :
               zYear' - o < 4 =>
                 \/ zTakes'[o] = minusBucket[o] /\ o \notin DOMAIN minusBucket'
                 \/ /\ o \in DOMAIN minusBucket'
                    /\ minusBucket'[o] = minusBucket[o] - zTakes'[o]]_vars

\* C6 witness: a loss of 1000 of the first year is drawn in full four years
\* later.
C6_Witness ==
  /\ zYear = FirstYear + 4
  /\ zStats.s.gainCompensabile = 1000
  /\ zTakes[FirstYear] = 1000
  /\ zRow.usedZainetto = 1000

\* C7: the Residual Basket of every row counts no entry more than four years
\* older than the row's year, whether or not the years in between have rows.
C7_ResidualCountsNoExpiredEntry ==
  zRow.year # 0 =>
    zRow.totalResiduo = SumBucket(minusBucket, Usable(minusBucket, zRow.year))

\* C8: non-compensable gains never draw on the basket: the taxable base is at
\* least the ETF gains plus dividends, and in a year without compensable gain
\* nothing is taken from the basket, Basket USED is 0 and the tax is 26% of
\* the non-compensable gains.
C8_NonCompensableAlwaysTaxed ==
  zRow.year # 0 =>
    /\ zRow.gainNoComp = zStats.s.gainNonCompensabile + zStats.divs
    /\ zRow.taxableBase >= zRow.gainNoComp
    /\ zStats.s.gainCompensabile = 0 =>
         /\ zTakes = NoTakes
         /\ zRow.usedZainetto = 0
         /\ zRow.taxableBase = zRow.gainNoComp
         /\ zRow.estimatedTax100 = 26 * zRow.gainNoComp

\* C8 witness: an ETF gain of 500 in a year without compensable gain, while
\* the basket holds a loss of an earlier year: taxable base 500, tax 130.
C8_Witness ==
  /\ zRow.year # 0
  /\ zStats.s.gainCompensabile = 0
  /\ zStats.s.gainNonCompensabile = 500 /\ zStats.divs = 0
  /\ zStats.s.lossAnno = 0
  /\ \E o \in DOMAIN minusBucket : o < zRow.year /\ zRow.year - o <= 3
  /\ zRow.totalResiduo >= 500
  /\ zRow.expiredAmount = 0
  /\ zRow.taxableBase = 500
  /\ zRow.estimatedTax100 = 13000

\* C9: in a year whose compensable gains G exceed its losses L, the drawdown
\* takes at most G - L and the taxable base is the non-compensable gains plus
\* G - L minus what was drawn.
C9_NetGainIsTaxed ==
  (zRow.year # 0 /\ zStats.s.gainCompensabile - zStats.s.lossAnno > 0) =>
    /\ zRow.usedZainetto <= zStats.s.gainCompensabile - zStats.s.lossAnno
    /\ SumTakes(zTakes) <= zStats.s.gainCompensabile - zStats.s.lossAnno
    /\ zRow.taxableBase
         = zRow.gainNoComp + (zStats.s.gainCompensabile - zStats.s.lossAnno)
             - zRow.usedZainetto

\* C10: a year whose losses L exceed its compensable gains G opens a basket
\* entry of that year holding L - G, reports L - G as New Losses and taxes the
\* non-compensable gains alone; the next report year, if at most four years
\* later, draws on that entry for what its gain exceeds the older usable
\* entries by.
C10_NetLossOpensEntry ==
  [][YearProcessed =>
       LET s == zStats'.s
           older == {o \in Usable(minusBucket, zYear') : o < zYear}
           exceeds == s.gainCompensabile - SumBucket(minusBucket, older)
       IN /\ s.lossAnno > s.gainCompensabile =>
               /\ zYear' \in DOMAIN minusBucket'
               /\ minusBucket'[zYear'] = s.lossAnno - s.gainCompensabile
               /\ zRow'.newLosses = s.lossAnno - s.gainCompensabile
               /\ zRow'.usedZainetto = 0
               /\ zRow'.taxableBase = zRow'.gainNoComp
               /\ zRow'.estimatedTax100 = 26 * zRow'.gainNoComp
          /\ (zRow.newLosses > 0 /\ zYear' - zYear <= 4) =>
               /\ zYear \in DOMAIN minusBucket
               /\ minusBucket[zYear] = zRow.newLosses
               /\ zTakes'[zYear]
                    = IF exceeds <= 0 THEN 0 ELSE MinNat(exceeds, zRow.newLosses)]_vars

\* C10 witness: gains 500 and losses 1000 in one year, with an ETF gain of 500
\* and a dividend of 100: the entry and New Losses are 500, the base 600.
C10_Witness ==
  /\ zRow.year # 0
  /\ zStats.s.gainCompensabile = 500 /\ zStats.s.lossAnno = 1000
  /\ zRow.newLosses = 500
  /\ zRow.year \in DOMAIN minusBucket /\ minusBucket[zRow.year] = 500
  /\ zRow.gainNoComp = 600
  /\ zRow.taxableBase = 600

\* C11: within one report year the drawdown is oldest-origin-first: an entry
\* gives something only when every usable entry of an earlier origin year was
\* taken in full (and so left the basket), and what is drawn in total exceeds
\* neither the gain being offset nor the sum of the usable entries.
C11_DrawdownOldestFirst ==
  [][YearProcessed =>
       LET usable == Usable(minusBucket, zYear')
       IN /\ \A o1 \in usable, o2 \in usable :
               (o1 < o2 /\ zTakes'[o2] > 0) =>
                 /\ zTakes'[o1] = minusBucket[o1]
                 /\ o1 \notin DOMAIN minusBucket'
          /\ SumTakes(zTakes') <= zStats'.s.gainCompensabile
          /\ SumTakes(zTakes') <= SumBucket(minusBucket, usable)]_vars

\* C11 witness: entries of 500 (first year) and 1000 (second year), then a
\* gain of 1000: the older entry gives all 500, the newer one the other 500.
C11_Witness ==
  /\ zYear = FirstYear + 2
  /\ zStats.s.gainCompensabile = 1000 /\ zStats.s.lossAnno = 0
  /\ zTakes[FirstYear] = 500 /\ zTakes[FirstYear + 1] = 500
  /\ FirstYear \notin DOMAIN minusBucket
  /\ FirstYear + 1 \in DOMAIN minusBucket /\ minusBucket[FirstYear + 1] = 500
  /\ zRow.usedZainetto = 1000

\* ======================================================== closed positions
\* C12: in the stock interface, when a Sell leaves a ticker's lot queue empty
\* the ticker is removed from the result if and only if the sell is dated
\* before CUTOFF_DATE; a sell on or after the cutoff leaves the ticker in the
\* result with 0 shares and average price 0.
C12_StockPurgedOnlyBeforeCutoff ==
  [][(entry = "myStockPositions" /\ Processed("Sell")) =>
       LET t == last'.ticker
           rows == formatPortfolioOutput(pfPortfolio')
       IN (t \in DOMAIN pfPortfolio /\ Queue(pfPortfolio', t) = <<>>) =>
            /\ t \notin DOMAIN rows <=> last'.date < CUTOFF_DATE
            /\ last'.date >= CUTOFF_DATE =>
                 /\ t \in DOMAIN rows
                 /\ rows[t].totalShares = 0
                 /\ rows[t].avgPrice = <<0, 1>>]_vars

\* C12 witness: a stock bought and sold out on the cutoff date is still in the
\* result, with 0 shares at average price 0.
C12_Witness ==
  /\ entry = "myStockPositions"
  /\ last.action = "Sell" /\ last.ticker = "AAA" /\ last.date = CUTOFF_DATE
  /\ bought["AAA"] = 5 * Unit(StockPrecision)
  /\ consumed["AAA"] = 5 * Unit(StockPrecision)
  /\ "AAA" \in DOMAIN formatPortfolioOutput(pfPortfolio)
  /\ formatPortfolioOutput(pfPortfolio)["AAA"].totalShares = 0
  /\ formatPortfolioOutput(pfPortfolio)["AAA"].avgPrice = <<0, 1>>

\* C13: in the crypto interface, after any sequence of trades with any dates,
\* no ticker whose remaining quantity is zero appears in the result.
C13_CryptoNeverShowsZero ==
  entry = "myCryptoPositions" =>
    \A t \in DOMAIN formatPortfolioOutput(pfPortfolio) :
      formatPortfolioOutput(pfPortfolio)[t].totalShares # 0

\* ====================================================== portfolio snapshots
\* C14: for every ticker, the owned quantity in the final snapshot of
\* PORTFOLIO_EVOLUZIONE is the sum of the open-lot shares calculatePortfolioStats
\* computes from the same trades, and the ticker has a final snapshot row
\* exactly when its status is OPEN.
C14_SnapshotMatchesOpenLots ==
  entry = "PORTFOLIO_DASHBOARD" =>
    \A t \in Tickers :
      LET shares == CurrentShares(psPortfolio, t)
          open == t \in DOMAIN stats /\ Status(shares) = "OPEN"
      IN /\ t \in SnapshotRows(holdings) <=> open
         /\ t \in SnapshotRows(holdings) => holdings[t].qty = shares

\* ============================================================ report calls
\* The step just taken was a call of `fn`.
Called(fn) ==
  /\ Len(results') = Len(results) + 1
  /\ results'[Len(results')].fn = fn

\* C15: calculatePortfolioStats called twice in a row on the same trade list
\* (the day unchanged) returns the same table twice: the first call leaves
\* nothing behind that changes the second call's result.
C15_PortfolioStatsIdempotent ==
  [][(/\ Called("calculatePortfolioStats")
      /\ Len(results) >= 1
      /\ results[Len(results)].fn = "calculatePortfolioStats") =>
       results'[Len(results')].table = results[Len(results)].table]_vars

\* C15 witness: two calls on an array that was not in date order (the crypto
\* buy precedes the stock trades), with a stock sold at a gain and the crypto
\* lot open; both tables are the same.
C15_Witness ==
  /\ Len(results) = 2
  /\ results[1].fn = "calculatePortfolioStats"
  /\ results[2].fn = "calculatePortfolioStats"
  /\ results[1].table = results[2].table
  /\ Len(stockData) = 2 /\ Len(cryptoData) = 1
  /\ stockData[1].date > cryptoData[1].date
  /\ results[2].table["AAA"].tradingPnL > 0
  /\ results[2].table["BTC"].status = "OPEN"

\* The two arrays hold the same records, in whatever order.
SameRecords(a, b) ==
  /\ Len(a) = Len(b)
  /\ \E p \in Permutations(1..Len(a)) : \A i \in 1..Len(a) : a[i] = b[p[i]]

\* What a report function returns when it alone is called on the array.
RunAlone(fn, data) ==
  LET sorted == SortByDate(data)
  IN CASE fn = "calculatePortfolioStats" ->
            LET r == PortfolioStatsLoop(sorted, EmptyMap, EmptyMap)
            IN DashboardOutput(r.portfolio, r.stats, Today)
       [] fn = "calculateFiscalReportDetails" -> FiscalReport(sorted, EmptyMap)
       [] fn = "calculateZainettoReport" -> ZainettoReport(sorted)

\* C16: whatever report functions are called on one trade array, in whatever
\* order, the array holds the trade records it was given with every field as
\* it was, and each call returned what it returns when it alone is called on
\* the array.
C16_ReportsShareNoState ==
  /\ SameRecords(allData, stockData \o cryptoData)
  /\ \A i \in 1..Len(results) :
       results[i].table = RunAlone(results[i].fn, stockData \o cryptoData)

\* C16 witness: the dashboard left a stock lot open and then the fiscal report
\* was called on the same array: it lists the one sale, closing the older lot.
C16_Witness ==
  /\ Len(results) = 2
  /\ results[1].fn = "calculatePortfolioStats"
  /\ results[2].fn = "calculateFiscalReportDetails"
  /\ "AAA" \in DOMAIN psPortfolio
  /\ Len(stockData) = 2 /\ Len(cryptoData) = 1
  /\ cryptoData[1].action = "Sell" /\ cryptoData[1].date < stockData[1].date
  /\ stockData[1].action = "Buy" /\ stockData[2].action = "Sell"
  /\ Len(results[2].table) = 2
  /\ results[2].table[2].ticker = "AAA"
  /\ results[2].table[2].sharesSold = 5 * Unit(StockPrecision)

\* ======================================================= Buy-class actions
\* The step just taken put one more lot into the ticker's queue.
LotAdded(before, after, ticker) ==
  Len(Queue(after, ticker)) = Len(Queue(before, ticker)) + 1

HeldQty(hold, ticker) == IF ticker \in DOMAIN hold THEN hold[ticker].qty ELSE 0

Reordered(rows, p) == [i \in 1..Len(rows) |-> rows[p[i]]]

\* C20: normalizeData returns its records in non-decreasing date order for
\* every order of the rows, the concatenated list is in date order again when
\* calculatePortfolioStats and calculateFiscalReportDetails match lots, and for
\* trades of distinct dates what they return is the same for every order of
\* the rows.
C20_DateOrderBeforeMatching ==
  entry = "REPORTS" =>
    /\ IsSortedByDate(stockData)
    /\ IsSortedByDate(cryptoData)
    /\ results # <<>> => IsSortedByDate(allData)
    /\ (\A i \in 1..Len(allData), j \in 1..Len(allData) :
          i # j => allData[i].date # allData[j].date) =>
         \A k \in 1..Len(results) :
           \A p \in Permutations(1..Len(sheet.stock)),
              q \in Permutations(1..Len(sheet.crypto)) :
             results[k].table
               = RunAlone(results[k].fn,
                          NormalizeSheet(Reordered(sheet.stock, p), FALSE)
                            \o NormalizeSheet(Reordered(sheet.crypto, q), TRUE))

\* C20 witness: the stock sheet lists a sell above the earlier buy, and the
\* dashboard matched the sell against that buy.
C20_Witness ==
  /\ entry = "REPORTS"
  /\ Len(sheet.stock) = 2
  /\ sheet.stock[1].action = "Sell" /\ sheet.stock[2].action = "Buy"
  /\ sheet.stock[1].date > sheet.stock[2].date
  /\ stockData[1].action = "Buy" /\ stockData[2].action = "Sell"
  /\ Len(results) >= 1
  /\ results[1].fn = "calculatePortfolioStats"
  /\ results[1].table["AAA"].tradingPnL # 0
  /\ results[1].table["AAA"].tradeCount = 2

\* ============================================================ cleanNumber
\* C21: cleanNumber gives the amount a cell shows, whether it is written in
\* the European or in the US form and whatever currency symbols and spaces
\* surround it, and gives 0 for a cell that holds no number.
C21_BothFormsSameValue ==
  entry = "returned" =>
    /\ \A a \in Amounts, f \in Forms, d \in Decorations :
         cnValue = StringCell(Decorated(Written(a, f), d))
           => cnResult = Hundredths(a)
    /\ cnValue \in Unparseable => cnResult = 0

\* ========================================================= REPORT_ZAINETTO
\* The fiscal ledger of the trades of both sheets.
LedgerOfSheets ==
  Tail(FiscalReport(SortByDate(NormalizeSheet(sheet.stock, FALSE)
                                 \o NormalizeSheet(sheet.crypto, TRUE)),
                    EmptyMap))

\* The gains of a year in a ledger, of ETF sales or of the other sales.
RECURSIVE GainsOf(_, _, _)
GainsOf(ledger, year, etf) ==
  IF ledger = <<>> THEN 0
  ELSE (IF Head(ledger).year = year /\ Head(ledger).pnl > 0
           /\ (Head(ledger).type = "ETF") = etf
        THEN Head(ledger).pnl ELSE 0) + GainsOf(Tail(ledger), year, etf)

\* C22: in the report REPORT_ZAINETTO returns, every year with a realized
\* gain has a row; its compensable gain is the year's gains on Stock and
\* Crypto sales, and its non-compensable gain the year's gains on ETF sales.
C22_GainsByAssetType ==
  entry = "returned" /\ results # <<>> /\ results[1].fn = "REPORT_ZAINETTO" =>
    \A year \in Years :
      GainsOf(LedgerOfSheets, year, FALSE) + GainsOf(LedgerOfSheets, year, TRUE) > 0
        => \E i \in 2..Len(results[1].table) :
             /\ results[1].table[i].year = year
             /\ results[1].table[i].gainCompensabile
                  = GainsOf(LedgerOfSheets, year, FALSE)
             /\ results[1].table[i].gainNoComp
                  = GainsOf(LedgerOfSheets, year, TRUE)

\* ====================================================== the AI entry points
\* A response the entry point can use: status 200 and candidates with a text
\* (for parseExpenseAI, a text that is JSON).
Successful(fn, response) ==
  /\ response.code = 200
  /\ IF fn = "parseExpenseAI" THEN response.body = "candidates:json"
     ELSE HasCandidates(response.body)

\* C23: askGemini, parseExpenseAI and analyzeAsset call the models of their
\* list in list order; a model is called only after every model before it has
\* failed; a successful response is returned at once, so it is the last
\* call; after the last model has failed the degraded result is returned;
\* no exception leaves the function.
C23_ModelsTriedInOrder ==
  entry \in AiFunctions =>
    /\ Len(aiCalls) <= Len(MODELS(entry))
    /\ \A i \in 1..Len(aiCalls) : aiCalls[i].model = MODELS(entry)[i]
    /\ \A i \in 1..(Len(aiCalls) - 1) : ~Successful(entry, aiCalls[i].response)
    /\ aiResult.kind # "thrown"
    /\ aiResult.kind = "running" =>
         /\ Len(aiCalls) < Len(MODELS(entry))
         /\ \A i \in 1..Len(aiCalls) : ~Successful(entry, aiCalls[i].response)
    /\ aiResult.kind = "returned" =>
         /\ aiCalls # <<>>
         /\ Successful(entry, aiCalls[Len(aiCalls)].response)
         /\ aiResult.text = aiCalls[Len(aiCalls)].response.body
    /\ aiResult.kind = "degraded" =>
         /\ Len(aiCalls) = Len(MODELS(entry))
         /\ \A i \in 1..Len(aiCalls) : ~Successful(entry, aiCalls[i].response)
         /\ aiResult.text = Degraded(entry)

\* C23 witness: the fetch of the first model threw, the second model answered
\* 429, and the third model's response was returned.
C23_Witness ==
  /\ entry \in AiFunctions
  /\ Len(aiCalls) = 3
  /\ aiCalls[1].response.code = 0
  /\ aiCalls[2].response.code = 429
  /\ aiResult.kind = "returned"

\* ======================================================== the fiscal ledger
\* The shares an oldest-first sale of q shares takes from the first i lots.
RECURSIVE FifoTaken(_, _, _, _)
FifoTaken(lots, q, i, precision) ==
  IF i = 0 THEN 0
  ELSE FifoTaken(lots, q, i - 1, precision) + FifoTakes(lots, q, i, precision)

LeftAfterDrawdown(origin) ==
  IF origin \in DOMAIN minusBucket THEN minusBucket[origin] - zTakes'[origin] ELSE 0

\* C25: when the entry whose last usable year is the report year (origin =
\* report year - 4) still has a balance after that year's drawdown, the
\* year's row carries the urgent-expiry note.
C25_UrgentNoteInLastUsableYear ==
  [][(entry = "REPORT_ZAINETTO" /\ zYear' # zYear) =>
       (LeftAfterDrawdown(zYear' - BasketYears) > 0
          => "URGENT" \in zRow'.notes)]_vars

\* C26: from one report row to the next, Residual Basket = Residual Basket of
\* the row before + New Losses - Basket USED - Basket EXPIRED, and what the
\* drawdown took out of the entries is the row's Basket USED.
C26_BasketConserved ==
  [][(entry = "REPORT_ZAINETTO" /\ zYear' # zYear) =>
       /\ zRow'.totalResiduo
            = zRow.totalResiduo + zRow'.newLosses - zRow'.usedZainetto
                - zRow'.expiredAmount
       /\ SumTakes(zTakes') = zRow'.usedZainetto]_vars

\* ================================================ ledger against dashboard
\* The P&L column of the ledger, summed over the rows of a ticker.
RECURSIVE LedgerPnL(_, _)
LedgerPnL(report, ticker) ==
  IF report = <<>> THEN 0
  ELSE (IF Head(report).ticker = ticker THEN Head(report).pnl ELSE 0)
         + LedgerPnL(Tail(report), ticker)

\* C27: on the same trades, the P&L of a ticker's rows in the fiscal ledger
\* adds up to the ticker's tradingPnL of calculatePortfolioStats.
C27_LedgerAgreesWithDashboard ==
  entry = "PORTFOLIO_DASHBOARD, REPORT_FISCALE" =>
    \A t \in Tickers :
      LedgerPnL(Tail(fiscal.report), t) = StatOf(stats, t).tradingPnL

\* ====================================================== the yearly snapshots
\* C28: on sheets with non-negative quantities and prices, every ticker that
\* gets a snapshot row has an owned quantity above 0 and an invested capital
\* of at least 0, also after a Sell of more than was held.
C28_SnapshotRowsOwnedAndFunded ==
  entry = "PORTFOLIO_EVOLUZIONE" =>
    \A t \in SnapshotRows(holdings) :
      holdings[t].qty > 0 /\ holdings[t].invested >= 0

\* ========================================================== the sell loops
\* The head lot holds a multiple of the unit of the loop's precision.
HeadOnGrid(l) ==
  l.lots # <<>> /\ ToFixed(Head(l.lots).shares, l.precision) = Head(l.lots).shares

\* Iterations the loop can still take: two for each lot, one for a head lot
\* that is on the grid.
IterationsLeft(l) == 2 * Len(l.lots) - (IF HeadOnGrid(l) THEN 1 ELSE 0)

C30_FirstBuyKept ==
  [][(entry = "PORTFOLIO_DASHBOARD" /\ nTrades' = nTrades + 1) =>
       \A t \in Tickers :
         LET s == StatOf(stats, t)
             s1 == StatOf(stats', t)
         IN IF s.firstBuyDate # 0
            THEN /\ s1.firstBuyDate = s.firstBuyDate
                 /\ s1.firstBuyPrice = s.firstBuyPrice
            ELSE (last'.ticker = t /\ IsBuyClass(last'.action)) =>
                   /\ s1.firstBuyDate = last'.date
                   /\ s1.firstBuyPrice = last'.unitPrice]_vars

=============================================================================
